---------------------------- MODULE Spec2Model ----------------------------
(***************************************************************************)
(* A model of scafkit's persistent core: the document store (db/store.ts), *)
(* the migration engine (db/migrations.ts, db/schemas.ts), the git source  *)
(* resolver (utils/git-source.ts), the template service                    *)
(* (core/template-service.ts) and the AI profile operations of             *)
(* core/ai-service.ts.                                                     *)
(*                                                                         *)
(* Conventions.                                                            *)
(*  - A JavaScript string that the code only compares or stores is a TLA+  *)
(*    string.  Undef stands for undefined/null (an absent field) and Bad   *)
(*    for a value of the wrong type in a decoded JSON document.            *)
(*  - An address (a template source) is parsed by the code, so it is a     *)
(*    sequence of tokens: every special character (":" "/" "@" "." "?" "#" *)
(*    "~" "\\" and the blank " ") is a token of its own, and a maximal run *)
(*    of other characters (a word: "acme", "github", "https") is one.      *)
(*  - An operation that can throw returns a record whose field err is ""   *)
(*    when it returned normally and the kind of error otherwise.           *)
(***************************************************************************)
EXTENDS Integers, Sequences, FiniteSets, TLC

Undef == "<undefined>"
Bad == "<badtype>"

(***************************************************************************)
(* Strings as token sequences                                              *)
(***************************************************************************)
Specials == {":", "/", "@", ".", "?", "#", "~", "\\", " "}

IsWord(t) == t \notin Specials

\* Words that consist of one ASCII letter (a drive letter).
OneLetterWords == {"C"}

\* Words that consist of decimal digits only (a port number).
DigitWords == {"22"}

\* String.prototype.toLowerCase on one token.
LowerTok(t) ==
  CASE t = "GitHub" -> "github"
    [] t = "COM" -> "com"
    [] t = "GIT" -> "git"
    [] t = "HTTPS" -> "https"
    [] t = "C" -> "c"
    [] OTHER -> t

toLowerCase(s) == [i \in 1..Len(s) |-> LowerTok(s[i])]

\* The first index i >= from with s[i] \in T, or 0 when there is none.
IndexOfAny(s, T, from) ==
  LET I == {i \in from..Len(s) : s[i] \in T}
  IN IF I = {} THEN 0 ELSE CHOOSE i \in I : \A j \in I : i <= j

\* The last index i with s[i] \in T, or 0.
LastIndexOfAny(s, T) ==
  LET I == {i \in 1..Len(s) : s[i] \in T}
  IN IF I = {} THEN 0 ELSE CHOOSE i \in I : \A j \in I : i >= j

Slice(s, a, b) == IF a > b THEN <<>> ELSE SubSeq(s, a, b)

\* s with the leading and trailing tokens that lie in T removed.
StripAll(s, T) ==
  LET K == {i \in 1..Len(s) : s[i] \notin T}
  IN IF K = {} THEN <<>>
     ELSE Slice(s, CHOOSE i \in K : \A j \in K : i <= j,
                   CHOOSE i \in K : \A j \in K : i >= j)

\* String.prototype.trim
trim(s) == StripAll(s, {" "})

HasBlank(s) == \E i \in 1..Len(s) : s[i] = " "

\* s.split("/").filter(Boolean): the non-empty pieces between slashes.
RECURSIVE SplitSegments(_)
SplitSegments(s) ==
  IF s = <<>> THEN <<>>
  ELSE LET k == IndexOfAny(s, {"/"}, 1)
       IN IF k = 0 THEN <<s>>
          ELSE IF k = 1 THEN SplitSegments(Tail(s))
          ELSE <<Slice(s, 1, k - 1)>> \o SplitSegments(Slice(s, k + 1, Len(s)))

\* segments.join("/")
RECURSIVE JoinSegments(_)
JoinSegments(segs) ==
  IF segs = <<>> THEN <<>>
  ELSE IF Len(segs) = 1 THEN segs[1]
  ELSE segs[1] \o <<"/">> \o JoinSegments(Tail(segs))

(***************************************************************************)
(* utils/git-source.ts                                                     *)
(***************************************************************************)
SUPPORTED_GIT_HOSTS == << <<"github", ".", "com">>,
                          <<"gitlab", ".", "com">>,
                          <<"gitee", ".", "com">> >>

SUPPORTED_GIT_HOSTS_SET == {SUPPORTED_GIT_HOSTS[i] : i \in 1..Len(SUPPORTED_GIT_HOSTS)}

\* /^(\.|\/|~|[A-Za-z]:[\\/])/
LOCAL_PATH_HINT_PATTERN(s) ==
  /\ Len(s) >= 1
  /\ \/ s[1] \in {".", "/", "~"}
     \/ /\ Len(s) >= 3
        /\ s[1] \in OneLetterWords
        /\ s[2] = ":"
        /\ s[3] \in {"\\", "/"}

\* /^(?<user>[^@\s]+)@(?<host>[^:\s]+):(?<repoPath>.+)$/
\* user ends at the first "@", host at the first ":" after it.
SCP_LIKE_PATTERN(s) ==
  LET a == IndexOfAny(s, {"@"}, 1)
      c == IF a = 0 THEN 0 ELSE IndexOfAny(s, {":"}, a + 1)
      ok == /\ a > 1
            /\ ~HasBlank(Slice(s, 1, a - 1))
            /\ c > a + 1
            /\ ~HasBlank(Slice(s, a + 1, c - 1))
            /\ c < Len(s)
  IN IF ok
     THEN [matched |-> TRUE, user |-> Slice(s, 1, a - 1),
           host |-> Slice(s, a + 1, c - 1), repoPath |-> Slice(s, c + 1, Len(s))]
     ELSE [matched |-> FALSE, user |-> <<>>, host |-> <<>>, repoPath |-> <<>>]

\* /^(?<host>[^/\s]+\.[^/\s]+)\/(?<repoPath>.+)$/
\* host ends at the first "/" and holds a "." that is neither its first nor
\* its last character.
HOST_ONLY_PATTERN(s) ==
  LET k == IndexOfAny(s, {"/"}, 1)
      h == IF k = 0 THEN <<>> ELSE Slice(s, 1, k - 1)
      ok == /\ k > 1
            /\ ~HasBlank(h)
            /\ \E p \in 2..(Len(h) - 1) : h[p] = "."
            /\ k < Len(s)
  IN IF ok
     THEN [matched |-> TRUE, host |-> h, repoPath |-> Slice(s, k + 1, Len(s))]
     ELSE [matched |-> FALSE, host |-> <<>>, repoPath |-> <<>>]

\* A StripRepoPath that leaves a trailing ".git" in place.
StripRepoPath_KeepsSuffix(repoPathRaw) == StripAll(trim(repoPathRaw), {"/"})

\* repoPathRaw.trim().replace(/^\/+|\/+$/g, "").replace(/\.git$/i, "")
StripRepoPath(repoPathRaw) ==
  LET t == StripAll(trim(repoPathRaw), {"/"})
      n == Len(t)
  IN IF n >= 2 /\ t[n - 1] = "." /\ LowerTok(t[n]) = "git"
     THEN Slice(t, 1, n - 2)
     ELSE t

normalizeRepoPath(repoPathRaw) ==
  LET segments == SplitSegments(StripRepoPath(repoPathRaw))
  IN IF Len(segments) < 2
     THEN [err |-> "validation", path |-> <<>>]
     ELSE [err |-> "", path |-> JoinSegments(segments) \o <<".", "git">>]

\* Schemes the URL parser treats as special (an authority is required).
SpecialSchemes == {<<"https">>, <<"http">>, <<"ftp">>, <<"ws">>, <<"wss">>}

UrlFail ==
  [ok |-> FALSE, protocol |-> <<>>, username |-> <<>>, hostname |-> <<>>,
   pathname |-> <<>>, search |-> <<>>, hash |-> <<>>]

\* new URL(raw), for an input without a base: the WHATWG parser restricted to
\* scheme ":" ["//" [user [":" password] "@"] host [":" port]] path ["?" query]
\* ["#" fragment].  Path segments "." and ".." and percent-encoding are not
\* modelled: the inputs of this model hold neither.
\*
\* The scheme: [ok, protocol, special, rest], rest being what follows ":".
UrlScheme(raw) ==
  LET c == IndexOfAny(raw, {":"}, 1)
      scheme == Slice(raw, 1, c - 1)
  IN [ok |-> /\ c > 1
             /\ IsWord(scheme[1]) /\ scheme[1] \notin DigitWords
             /\ \A i \in 1..Len(scheme) : IsWord(scheme[i]) \/ scheme[i] = ".",
      protocol |-> toLowerCase(scheme),
      special |-> toLowerCase(scheme) \in SpecialSchemes,
      rest |-> Slice(raw, c + 1, Len(raw))]

\* Where the authority starts in rest, or 0 when the URL has none.
UrlAuthorityStart(rest, special) ==
  LET K == {i \in 1..Len(rest) : rest[i] \notin {"/", "\\"}}
  IN IF special
     THEN IF K = {} THEN Len(rest) + 1 ELSE CHOOSE i \in K : \A j \in K : i <= j
     ELSE IF Len(rest) >= 2 /\ rest[1] = "/" /\ rest[2] = "/" THEN 3
     ELSE 0

\* Where the authority ends in rest.
UrlAuthorityEnd(rest, special, authStart) ==
  LET e == IndexOfAny(rest, IF special THEN {"/", "\\", "?", "#"} ELSE {"/", "?", "#"},
                      authStart)
  IN IF authStart = 0 THEN 0 ELSE IF e = 0 THEN Len(rest) ELSE e - 1

\* The authority [user [":" password] "@"] host [":" port]: [ok, username, host]
UrlHost(authority, special) ==
  LET at == LastIndexOfAny(authority, {"@"})
      userinfo == Slice(authority, 1, at - 1)
      hostport == Slice(authority, at + 1, Len(authority))
      uc == IndexOfAny(userinfo, {":"}, 1)
      hc == IndexOfAny(hostport, {":"}, 1)
      host == IF hc = 0 THEN hostport ELSE Slice(hostport, 1, hc - 1)
      port == IF hc = 0 THEN <<>> ELSE Slice(hostport, hc + 1, Len(hostport))
  IN [ok |-> /\ port = <<>> \/ (Len(port) = 1 /\ port[1] \in DigitWords)
             /\ ~HasBlank(host)
             /\ \A i \in 1..Len(host) : host[i] \notin {"@", "\\", "?", "#", "/"}
             /\ special => host # <<>>,
      username |-> IF uc = 0 THEN userinfo ELSE Slice(userinfo, 1, uc - 1),
      host |-> host]

\* What follows the authority: [pathname, search, hash]
UrlPath(after, special) ==
  LET q == IndexOfAny(after, {"?"}, 1)
      h == IndexOfAny(after, {"#"}, 1)
      queryAt == IF q # 0 /\ (h = 0 \/ q < h) THEN q ELSE 0
      pathEnd == IF queryAt # 0 THEN queryAt - 1
                 ELSE IF h # 0 THEN h - 1 ELSE Len(after)
      path == [i \in 1..pathEnd |->
                 IF special /\ after[i] = "\\" THEN "/" ELSE after[i]]
      query == IF queryAt = 0 THEN <<>>
               ELSE Slice(after, queryAt + 1, IF h # 0 THEN h - 1 ELSE Len(after))
      fragment == IF h = 0 THEN <<>> ELSE Slice(after, h + 1, Len(after))
  IN [pathname |-> IF special /\ path = <<>> THEN <<"/">> ELSE path,
      search |-> IF query = <<>> THEN <<>> ELSE <<"?">> \o query,
      hash |-> IF fragment = <<>> THEN <<>> ELSE <<"#">> \o fragment]

UrlOf(s, authStart, authEnd) ==
  LET host == UrlHost(IF authStart = 0 THEN <<>> ELSE Slice(s.rest, authStart, authEnd),
                      s.special)
      path == UrlPath(IF authStart = 0 THEN s.rest
                      ELSE Slice(s.rest, authEnd + 1, Len(s.rest)),
                      s.special)
  IN IF ~s.ok \/ ~host.ok THEN UrlFail
     ELSE [ok |-> TRUE, protocol |-> s.protocol, username |-> host.username,
           hostname |-> toLowerCase(host.host), pathname |-> path.pathname,
           search |-> path.search, hash |-> path.hash]

UrlParse(raw) ==
  LET s == UrlScheme(raw)
      authStart == UrlAuthorityStart(s.rest, s.special)
  IN UrlOf(s, authStart, UrlAuthorityEnd(s.rest, s.special, authStart))

ParsedSource(err, kind, host, user, protocol, repoPath, raw) ==
  [err |-> err, kind |-> kind, host |-> host, user |-> user,
   protocol |-> protocol, repoPath |-> repoPath, raw |-> raw]

ParseError == ParsedSource("validation", "raw", <<>>, <<>>, "", <<>>, <<>>)

RawSource(raw) == ParsedSource("", "raw", <<>>, <<>>, "", <<>>, raw)

WithNormalized(kind, host, user, protocol, rp, raw) ==
  IF rp.err # "" THEN ParseError
  ELSE ParsedSource("", kind, host, user, protocol, rp.path, raw)

WithRepoPath(kind, host, user, protocol, repoPathRaw, raw) ==
  WithNormalized(kind, host, user, protocol, normalizeRepoPath(repoPathRaw), raw)

\* parseSource after its trim, given what the two patterns and new URL yield
ParseTrimmed(raw, scpMatched, url, hostOnlyMatched) ==
     IF raw = <<>> THEN ParseError
     ELSE IF LOCAL_PATH_HINT_PATTERN(raw) THEN RawSource(raw)
     ELSE IF scpMatched.matched
     THEN IF toLowerCase(scpMatched.host) \in SUPPORTED_GIT_HOSTS_SET
          THEN WithRepoPath("scp", toLowerCase(scpMatched.host), scpMatched.user,
                            "", scpMatched.repoPath, raw)
          ELSE RawSource(raw)
     ELSE IF url.ok
     THEN IF url.protocol # <<"https">> /\ url.protocol # <<"ssh">> THEN ParseError
          ELSE IF url.search # <<>> \/ url.hash # <<>> THEN ParseError
          ELSE IF url.hostname \in SUPPORTED_GIT_HOSTS_SET
          THEN WithRepoPath("url", url.hostname,
                            IF url.username = <<>> THEN <<"git">> ELSE url.username,
                            IF url.protocol = <<"https">> THEN "https" ELSE "ssh",
                            url.pathname, raw)
          ELSE RawSource(raw)
     ELSE IF hostOnlyMatched.matched
     THEN IF toLowerCase(hostOnlyMatched.host) \in SUPPORTED_GIT_HOSTS_SET
          THEN WithRepoPath("host", toLowerCase(hostOnlyMatched.host), <<>>, "",
                            hostOnlyMatched.repoPath, raw)
          ELSE RawSource(raw)
     ELSE IF ~LOCAL_PATH_HINT_PATTERN(raw) /\ (\E i \in 1..Len(raw) : raw[i] = "/")
     THEN WithRepoPath("repo", <<>>, <<>>, "", raw, raw)
     ELSE RawSource(raw)

ParseRaw(raw) ==
  ParseTrimmed(raw, SCP_LIKE_PATTERN(raw), UrlParse(raw), HOST_ONLY_PATTERN(raw))

parseSource(input) == ParseRaw(trim(input))

toHttpsSource(host, repoPath) == <<"https", ":", "/", "/">> \o host \o <<"/">> \o repoPath

\* A toScpSource that always writes the default user.
toScpSource_DefaultUser(host, repoPath, user) ==
  <<"git", "@">> \o host \o <<":">> \o repoPath

toScpSource(host, repoPath, user) == user \o <<"@">> \o host \o <<":">> \o repoPath

toSshUrl(parsed) ==
  <<"ssh", ":", "/", "/">> \o parsed.user \o <<"@">> \o parsed.host \o <<"/">> \o parsed.repoPath

\* normalizeTemplateGitSource's switch on the parsed address
NormalizedForm(parsed) ==
     IF parsed.err # "" THEN [err |-> parsed.err, value |-> <<>>]
     ELSE [err |-> "",
           value |-> CASE parsed.kind = "url" ->
                            IF parsed.protocol = "https"
                            THEN toHttpsSource(parsed.host, parsed.repoPath)
                            ELSE toSshUrl(parsed)
                       [] parsed.kind = "scp" ->
                            toScpSource(parsed.host, parsed.repoPath, parsed.user)
                       [] parsed.kind = "host" ->
                            toHttpsSource(parsed.host, parsed.repoPath)
                       [] parsed.kind = "repo" -> parsed.repoPath
                       [] OTHER -> parsed.raw]

\* Returns [err, value]: err = "validation" when parseSource throws.
normalizeTemplateGitSource(source) == NormalizedForm(parseSource(source))

\* RepoCandidates with the ssh form of a host before its https form.
RECURSIVE RepoCandidates_SshFirst(_, _)
RepoCandidates_SshFirst(hosts, repoPath) ==
  IF hosts = <<>> THEN <<>>
  ELSE <<toScpSource(Head(hosts), repoPath, <<"git">>),
         toHttpsSource(Head(hosts), repoPath)>>
       \o RepoCandidates_SshFirst(Tail(hosts), repoPath)

RECURSIVE RepoCandidates(_, _)
RepoCandidates(hosts, repoPath) ==
  IF hosts = <<>> THEN <<>>
  ELSE <<toHttpsSource(Head(hosts), repoPath),
         toScpSource(Head(hosts), repoPath, <<"git">>)>>
       \o RepoCandidates(Tail(hosts), repoPath)

\* buildTemplateGitSourceCandidates' switch on the parsed address
CandidatesOf(parsed) ==
     IF parsed.err # "" THEN [err |-> parsed.err, value |-> <<>>]
     ELSE [err |-> "",
           value |-> CASE parsed.kind = "url" ->
                            IF parsed.protocol = "https"
                            THEN <<toHttpsSource(parsed.host, parsed.repoPath),
                                   toScpSource(parsed.host, parsed.repoPath, parsed.user)>>
                            ELSE <<toSshUrl(parsed),
                                   toHttpsSource(parsed.host, parsed.repoPath)>>
                       [] parsed.kind = "scp" ->
                            <<toScpSource(parsed.host, parsed.repoPath, parsed.user),
                              toHttpsSource(parsed.host, parsed.repoPath)>>
                       [] parsed.kind = "host" ->
                            <<toHttpsSource(parsed.host, parsed.repoPath),
                              toScpSource(parsed.host, parsed.repoPath, <<"git">>)>>
                       [] parsed.kind = "repo" ->
                            RepoCandidates(SUPPORTED_GIT_HOSTS, parsed.repoPath)
                       [] OTHER -> <<parsed.raw>>]

\* Returns [err, value]: value is the ordered candidate list.
buildTemplateGitSourceCandidates(source) == CandidatesOf(parseSource(source))

(***************************************************************************)
(* Values of the document                                                  *)
(*                                                                         *)
(* A JavaScript number is [k, v]: k = "int" for the integer v, "frac" for  *)
(* a non-integer whose integer part (towards zero) is v, "nan", "inf" or   *)
(* "undef" (an absent number).  A timestamp, an ISO string in the code, is *)
(* the clock value it was taken at; 0 stands for an absent or empty one.   *)
(* An optional list (variables) is a set holding the list, or no element.  *)
(***************************************************************************)
Num(k, v) == [k |-> k, v |-> v]

NumUndef == Num("undef", 0)

TemplateRecord(id, name, description, source, branch, subPath, variables, createdAt, updatedAt, sourceType) ==
  [id |-> id, name |-> name, description |-> description, source |-> source,
   branch |-> branch, subPath |-> subPath, variables |-> variables,
   createdAt |-> createdAt, updatedAt |-> updatedAt, sourceType |-> sourceType]

AiProfile(id, name, baseURL, apiKey, model, timeoutMs, createdAt, updatedAt) ==
  [id |-> id, name |-> name, baseURL |-> baseURL, apiKey |-> apiKey,
   model |-> model, timeoutMs |-> timeoutMs, createdAt |-> createdAt,
   updatedAt |-> updatedAt]

\* The decoded "ai" value: kind is "falsy" (absent, null, 0, ""), "scalar"
\* (another non-object) or "object"; an object may carry the keys of the legacy
\* flat configuration, the keys of the current settings, or both.
AiValue(kind, baseURL, apiKey, model, timeoutMs, activeProfileId, profilesIsArray, profiles) ==
  [kind |-> kind, baseURL |-> baseURL, apiKey |-> apiKey, model |-> model,
   timeoutMs |-> timeoutMs, activeProfileId |-> activeProfileId,
   profilesIsArray |-> profilesIsArray, profiles |-> profiles]

AiSettings(activeProfileId, profiles) ==
  AiValue("object", Undef, Undef, Undef, NumUndef, activeProfileId, TRUE, profiles)

\* The decoded content of the backing file: kind is "corrupt" (not JSON; the
\* empty file that ensureFile creates is one), "falsy" (null, 0, false, ""),
\* "scalar" (another non-object) or "object".
DbValue(kind, version, templatesIsArray, templates, ai) ==
  [kind |-> kind, version |-> version, templatesIsArray |-> templatesIsArray,
   templates |-> templates, ai |-> ai]

(***************************************************************************)
(* db/schemas.ts                                                           *)
(***************************************************************************)
\* z.string().min(1)
NonEmptyString(x) == x \notin {"", Undef, Bad}

\* z.string().optional()
OptionalString(x) == x # Bad

templateVariableSchema(v) ==
  /\ NonEmptyString(v.key)
  /\ v.required \in {"true", "false"}

templateRecordSchema(item) ==
  /\ NonEmptyString(item.id)
  /\ NonEmptyString(item.name)
  /\ OptionalString(item.description)
  /\ Len(item.source) >= 1
  /\ OptionalString(item.branch)
  /\ OptionalString(item.subPath)
  /\ \A vs \in item.variables : \A i \in 1..Len(vs) : templateVariableSchema(vs[i])
  /\ item.createdAt >= 1
  /\ item.updatedAt >= 1

\* z.number().int().positive()
PositiveInt(n) == n.k = "int" /\ n.v > 0

aiConfigSchema(x) ==
  /\ NonEmptyString(x.baseURL)
  /\ NonEmptyString(x.apiKey)
  /\ NonEmptyString(x.model)
  /\ PositiveInt(x.timeoutMs)

aiProfileSchema(x) ==
  /\ aiConfigSchema(x)
  /\ NonEmptyString(x.id)
  /\ NonEmptyString(x.name)
  /\ x.createdAt >= 1
  /\ x.updatedAt >= 1

aiSettingsSchema(x) ==
  /\ x.activeProfileId = Undef \/ NonEmptyString(x.activeProfileId)
  /\ \A i \in 1..Len(x.profiles) : aiProfileSchema(x.profiles[i])

appDbSchema(x) ==
  /\ x.version >= 0
  /\ \A i \in 1..Len(x.templates) : templateRecordSchema(x.templates[i])
  /\ aiSettingsSchema(x.ai)

(***************************************************************************)
(* db/migrations.ts                                                        *)
(***************************************************************************)
CURRENT_DB_VERSION == 2

createDefaultDb ==
  DbValue("object", CURRENT_DB_VERSION, TRUE, <<>>, AiSettings(Undef, <<>>))

\* What safeParse returns for a valid item: the schema's keys only.
ParsedTemplate(item) == [item EXCEPT !.sourceType = Undef]

RECURSIVE SanitizeTemplates(_)
SanitizeTemplates(items) ==
  IF items = <<>> THEN <<>>
  ELSE LET item == Head(items)
           rest == SanitizeTemplates(Tail(items))
       IN IF item.sourceType = "local" THEN rest
          ELSE IF templateRecordSchema(item) THEN <<ParsedTemplate(item)>> \o rest
          ELSE rest

\* A sanitizeTemplateList without the test on sourceType.
sanitizeTemplateList_KeepsLocal(isArray, input) ==
  IF ~isArray THEN <<>>
  ELSE LET valid == SelectSeq(input, templateRecordSchema)
       IN [i \in 1..Len(valid) |-> ParsedTemplate(valid[i])]

sanitizeTemplateList(isArray, input) ==
  IF ~isArray THEN <<>> ELSE SanitizeTemplates(input)

\* rnd is the identifier randomUUID yields, now the clock.
createAiProfile(config, name, rnd, now) ==
  AiProfile(rnd, name, config.baseURL, config.apiKey, config.model,
            config.timeoutMs, now, now)

\* A sanitizeAiSettings that makes the first kept profile the active one
\* whatever the stored activeProfileId is.
sanitizeAiSettings_FirstProfileActive(input, rnd, now) ==
  IF input.kind = "falsy" THEN AiSettings(Undef, <<>>)
  ELSE IF input.kind = "object" /\ aiConfigSchema(input)
  THEN LET profile == createAiProfile(input, "default", rnd, now)
       IN AiSettings(profile.id, <<profile>>)
  ELSE IF input.kind # "object" THEN AiSettings(Undef, <<>>)
  ELSE LET profiles == IF input.profilesIsArray
                       THEN SelectSeq(input.profiles, aiProfileSchema)
                       ELSE <<>>
       IN AiSettings(IF profiles # <<>> THEN profiles[1].id ELSE Undef, profiles)

\* A sanitizeAiSettings that keeps the stored activeProfileId as it is.
sanitizeAiSettings_KeepsStoredActive(input, rnd, now) ==
  IF input.kind = "falsy" THEN AiSettings(Undef, <<>>)
  ELSE IF input.kind = "object" /\ aiConfigSchema(input)
  THEN LET profile == createAiProfile(input, "default", rnd, now)
       IN AiSettings(profile.id, <<profile>>)
  ELSE IF input.kind # "object" THEN AiSettings(Undef, <<>>)
  ELSE LET profiles == IF input.profilesIsArray
                       THEN SelectSeq(input.profiles, aiProfileSchema)
                       ELSE <<>>
           activeProfileId == IF input.activeProfileId \notin {Undef, Bad, ""}
                              THEN input.activeProfileId
                              ELSE IF profiles # <<>> THEN profiles[1].id ELSE Undef
           settings == AiSettings(activeProfileId, profiles)
       IN IF ~aiSettingsSchema(settings) THEN AiSettings(Undef, <<>>) ELSE settings

\* A sanitizeAiSettings without the branch for the legacy flat configuration.
sanitizeAiSettings_NoLegacy(input, rnd, now) ==
  IF input.kind # "object" THEN AiSettings(Undef, <<>>)
  ELSE LET profiles == IF input.profilesIsArray
                       THEN SelectSeq(input.profiles, aiProfileSchema)
                       ELSE <<>>
       IN AiSettings(IF profiles # <<>> THEN profiles[1].id ELSE Undef, profiles)

sanitizeAiSettings(input, rnd, now) ==
  IF input.kind = "falsy" THEN AiSettings(Undef, <<>>)
  ELSE IF input.kind = "object" /\ aiConfigSchema(input)
  THEN LET profile == createAiProfile(input, "default", rnd, now)
       IN AiSettings(profile.id, <<profile>>)
  ELSE IF input.kind # "object" THEN AiSettings(Undef, <<>>)
  ELSE LET profiles == IF input.profilesIsArray
                       THEN SelectSeq(input.profiles, aiProfileSchema)
                       ELSE <<>>
           activeProfileIdRaw == IF input.activeProfileId \notin {Undef, Bad}
                                 THEN input.activeProfileId ELSE Undef
           activeProfileId ==
             IF /\ activeProfileIdRaw \notin {Undef, ""}
                /\ \E i \in 1..Len(profiles) : profiles[i].id = activeProfileIdRaw
             THEN activeProfileIdRaw
             ELSE IF profiles # <<>> THEN profiles[1].id ELSE Undef
           settings == AiSettings(activeProfileId, profiles)
       IN IF ~aiSettingsSchema(settings) THEN AiSettings(Undef, <<>>) ELSE settings

\* A migrateDb that raises the version it finds by one.
migrateDb_BumpsVersion(rawData, rnd, now) ==
  IF rawData.kind = "falsy" THEN createDefaultDb
  ELSE DbValue("object", rawData.version + 1, TRUE,
               IF rawData.kind = "object"
               THEN sanitizeTemplateList(rawData.templatesIsArray, rawData.templates)
               ELSE <<>>,
               IF rawData.kind = "object"
               THEN sanitizeAiSettings(rawData.ai, rnd, now)
               ELSE AiSettings(Undef, <<>>))

\* A migrateDb that keeps the version it finds.
migrateDb_KeepsVersion(rawData, rnd, now) ==
  IF rawData.kind = "falsy" THEN createDefaultDb
  ELSE DbValue("object", rawData.version, TRUE,
               IF rawData.kind = "object"
               THEN sanitizeTemplateList(rawData.templatesIsArray, rawData.templates)
               ELSE <<>>,
               IF rawData.kind = "object"
               THEN sanitizeAiSettings(rawData.ai, rnd, now)
               ELSE AiSettings(Undef, <<>>))

\* migrateDb: the final appDbSchema.safeParse
ValidatedDb(migrated) ==
  IF ~appDbSchema(migrated) THEN createDefaultDb ELSE migrated

migrateDb(rawData, rnd, now) ==
  IF rawData.kind = "falsy" THEN createDefaultDb
  ELSE ValidatedDb(
         DbValue("object", CURRENT_DB_VERSION, TRUE,
                 IF rawData.kind = "object"
                 THEN sanitizeTemplateList(rawData.templatesIsArray, rawData.templates)
                 ELSE <<>>,
                 IF rawData.kind = "object"
                 THEN sanitizeAiSettings(rawData.ai, rnd, now)
                 ELSE AiSettings(Undef, <<>>)))

\* Whether migrating rawData draws a random identifier (legacy flat settings).
DrawsProfileId(rawData) ==
  /\ rawData.kind = "object"
  /\ rawData.ai.kind = "object"
  /\ aiConfigSchema(rawData.ai)

(***************************************************************************)
(* JavaScript operators on atomic strings and numbers                      *)
(***************************************************************************)
\* a ?? b
Coalesce(a, b) == IF a = Undef THEN b ELSE a

\* a || b, for strings
OrElse(a, b) == IF a \in {Undef, ""} THEN b ELSE a

\* x?.trim(), on the strings of this model: "  " is blank, " work " is padded.
TrimStr(x) ==
  CASE x = "  " -> ""
    [] x = " work " -> "work"
    [] OTHER -> x

\* Math.trunc
Trunc(n) == IF n.k = "frac" THEN Num("int", n.v) ELSE n

\* Number.isFinite
IsFinite(n) == n.k \in {"int", "frac"}

\* array.findIndex: the least index of I, the indices that pass the test, and 0
\* (the code's -1) when none does.
FirstIndex(I) == IF I = {} THEN 0 ELSE CHOOSE i \in I : \A j \in I : i <= j

(***************************************************************************)
(* The callbacks handed to writeDb, as data: [kind, arguments].            *)
(* ApplyMutator runs one on the draft and returns [err, draft]; the draft  *)
(* returned with an error is the draft as the callback left it when it     *)
(* threw.                                                                  *)
(***************************************************************************)
DEFAULT_BASE_URL == "https://api.openai.com/v1"
DEFAULT_MODEL == "gpt-4o-mini"
DEFAULT_TIMEOUT == 30000
DEFAULT_PROFILE_NAME == "default"

\* An addTemplate callback that looks for a duplicate id only.
AddTemplateMutator_NoNameCheck(draft, record) ==
  LET hasId == \E i \in 1..Len(draft.templates) : draft.templates[i].id = record.id
  IN IF hasId THEN [err |-> "conflict", draft |-> draft]
     ELSE [err |-> "",
           draft |-> [draft EXCEPT !.templates = Append(draft.templates, record)]]

\* template-service.ts, addTemplate's callback
AddTemplateMutator(draft, record) ==
  LET hasId == \E i \in 1..Len(draft.templates) : draft.templates[i].id = record.id
      hasName == \E i \in 1..Len(draft.templates) : draft.templates[i].name = record.name
  IN IF hasId THEN [err |-> "conflict", draft |-> draft]
     ELSE IF hasName THEN [err |-> "conflict", draft |-> draft]
     ELSE [err |-> "",
           draft |-> [draft EXCEPT !.templates = Append(draft.templates, record)]]

\* A callback that takes no record out.
FilterOutMutator_KeepsAll(draft, id) == [err |-> "", draft |-> draft]

\* template-service.ts, the callback of addTemplate's catch and of removeTemplate
FilterOutMutator(draft, id) ==
  [err |-> "",
   draft |-> [draft EXCEPT !.templates =
                SelectSeq(draft.templates, LAMBDA item : item.id # id)]]

\* template-service.ts, updateTemplate's callback
UpdateTemplateMutator(draft, id, input, normalizedSource, now) ==
  LET index == FirstIndex({i \in 1..Len(draft.templates) : draft.templates[i].id = id})
      cur == draft.templates[index]
      conflict == \E i \in 1..Len(draft.templates) :
                    i # index /\ draft.templates[i].name = input.name
  IN IF index = 0 THEN [err |-> "notfound", draft |-> draft]
     ELSE IF input.name \notin {Undef, ""} /\ conflict
     THEN [err |-> "conflict", draft |-> draft]
     ELSE [err |-> "",
           draft |-> [draft EXCEPT !.templates[index] =
             [cur EXCEPT !.name = Coalesce(input.name, cur.name),
                         !.description = Coalesce(input.description, cur.description),
                         !.source = normalizedSource,
                         !.branch = Coalesce(input.branch, cur.branch),
                         !.subPath = Coalesce(input.subPath, cur.subPath),
                         !.variables = IF input.variables = {} THEN cur.variables
                                       ELSE input.variables,
                         !.updatedAt = now]]]

\* A write-back that refreshes updatedAt and leaves the source as it was.
SyncWriteBackMutator_KeepsSource(draft, id, usedSource, now) ==
  LET index == FirstIndex({i \in 1..Len(draft.templates) : draft.templates[i].id = id})
  IN IF index = 0 THEN [err |-> "", draft |-> draft]
     ELSE [err |-> "", draft |-> [draft EXCEPT !.templates[index].updatedAt = now]]

\* template-service.ts, syncTemplate's callback
SyncWriteBackMutator(draft, id, usedSource, now) ==
  LET index == FirstIndex({i \in 1..Len(draft.templates) : draft.templates[i].id = id})
  IN IF index = 0 THEN [err |-> "", draft |-> draft]
     ELSE [err |-> "",
           draft |-> [draft EXCEPT !.templates[index].source = usedSource,
                                   !.templates[index].updatedAt = now]]

\* A setConfig callback that never looks for a profile of that name: it
\* appends a new profile on every call.
SetConfigMutator_AlwaysAppends(draft, profileName, input, newId, now) ==
  LET trimmed(x) == IF x = Undef THEN Undef ELSE TrimStr(x)
      merged ==
        AiProfile(newId, profileName,
                  OrElse(trimmed(input.baseURL), DEFAULT_BASE_URL),
                  OrElse(trimmed(input.apiKey), ""),
                  OrElse(trimmed(input.model), DEFAULT_MODEL),
                  Trunc(IF input.timeoutMs.k # "undef" THEN input.timeoutMs
                        ELSE Num("int", DEFAULT_TIMEOUT)),
                  now, now)
  IN IF merged.apiKey = "" THEN [err |-> "validation", draft |-> draft]
     ELSE IF ~IsFinite(merged.timeoutMs) \/ merged.timeoutMs.v <= 0
     THEN [err |-> "validation", draft |-> draft]
     ELSE [err |-> "",
           draft |-> [draft EXCEPT !.ai.profiles = Append(draft.ai.profiles, merged),
                                   !.ai.activeProfileId = merged.id]]

\* ai-service.ts, setConfig's callback; newId is what createProfileId yields
SetConfigMutator(draft, profileName, input, newId, now) ==
  LET profiles == draft.ai.profiles
      index == FirstIndex({i \in 1..Len(profiles) : profiles[i].name = profileName})
      has == index > 0
      existing == profiles[index]
      trimmed(x) == IF x = Undef THEN Undef ELSE TrimStr(x)
      merged ==
        AiProfile(
          IF has THEN existing.id ELSE newId,
          profileName,
          OrElse(trimmed(input.baseURL),
                 OrElse(IF has THEN existing.baseURL ELSE Undef, DEFAULT_BASE_URL)),
          OrElse(trimmed(input.apiKey),
                 OrElse(IF has THEN existing.apiKey ELSE Undef, "")),
          OrElse(trimmed(input.model),
                 OrElse(IF has THEN existing.model ELSE Undef, DEFAULT_MODEL)),
          Trunc(IF input.timeoutMs.k # "undef" THEN input.timeoutMs
                ELSE IF has /\ existing.timeoutMs.k # "undef" THEN existing.timeoutMs
                ELSE Num("int", DEFAULT_TIMEOUT)),
          IF has /\ existing.createdAt # 0 THEN existing.createdAt ELSE now,
          now)
      stored == IF has THEN [profiles EXCEPT ![index] = merged]
                ELSE Append(profiles, merged)
      active == IF Coalesce(input.activate, "true") = "true" THEN merged.id
                ELSE IF draft.ai.activeProfileId \in {Undef, ""} THEN merged.id
                ELSE draft.ai.activeProfileId
  IN IF merged.apiKey = "" THEN [err |-> "validation", draft |-> draft]
     ELSE IF ~IsFinite(merged.timeoutMs) \/ merged.timeoutMs.v <= 0
     THEN [err |-> "validation", draft |-> draft]
     ELSE [err |-> "",
           draft |-> [draft EXCEPT !.ai.profiles = stored,
                                   !.ai.activeProfileId = active]]

\* ai-service.ts, useConfig's callback
UseConfigMutator(draft, target) ==
  LET index == FirstIndex({i \in 1..Len(draft.ai.profiles) :
                            \/ draft.ai.profiles[i].id = target
                            \/ draft.ai.profiles[i].name = target})
  IN IF index = 0 THEN [err |-> "notfound", draft |-> draft]
     ELSE [err |-> "",
           draft |-> [draft EXCEPT !.ai.activeProfileId = draft.ai.profiles[index].id]]

\* A caller's callback that edits the draft (drops the records when clear,
\* appends those of push) and then throws when throws.
EditMutator(draft, clear, push, throws) ==
  [err |-> IF throws THEN "callback" ELSE "",
   draft |-> [draft EXCEPT !.templates =
                (IF clear THEN <<>> ELSE draft.templates) \o push]]

ApplyMutator(m, draft) ==
  CASE m.kind = "add" -> AddTemplateMutator(draft, m.record)
    [] m.kind = "filter" -> FilterOutMutator(draft, m.id)
    [] m.kind = "update" ->
         UpdateTemplateMutator(draft, m.id, m.input, m.normalizedSource, m.now)
    [] m.kind = "writeback" -> SyncWriteBackMutator(draft, m.id, m.usedSource, m.now)
    [] m.kind = "setConfig" ->
         SetConfigMutator(draft, m.profileName, m.input, m.newId, m.now)
    [] m.kind = "useConfig" -> UseConfigMutator(draft, m.target)
    [] m.kind = "edit" -> EditMutator(draft, m.clear, m.push, m.throws)

(***************************************************************************)
(* db/store.ts and the lowdb handle it keeps.                              *)
(*                                                                         *)
(* The store's state is st = [file, inst, data]: the decoded content of    *)
(* the backing file, whether dbInstance is set, and db.data.               *)
(***************************************************************************)
Store(file, inst, data) == [file |-> file, inst |-> inst, data |-> data]

\* Low.write: the file now holds db.data.
LowWrite(st) == [st EXCEPT !.file = st.data]

\* A safeRead that resets db.data for a file that is not JSON and leaves the
\* file as it is.
safeRead_KeepsFile(st) ==
  IF st.file.kind = "corrupt" THEN [st EXCEPT !.data = createDefaultDb]
  ELSE IF st.file.kind = "falsy" THEN st
  ELSE [st EXCEPT !.data = st.file]

\* safeRead: Low.read keeps db.data when the file decodes to a falsy value;
\* a file that is not JSON resets db.data and is overwritten.
safeRead(st) ==
  IF st.file.kind = "corrupt" THEN LowWrite([st EXCEPT !.data = createDefaultDb])
  ELSE IF st.file.kind = "falsy" THEN st
  ELSE [st EXCEPT !.data = st.file]

\* db.data = migrateDb(db.data)
Migrate(read, rnd, now) == [read EXCEPT !.data = migrateDb(read.data, rnd, now)]

initDb(st, rnd, now) ==
  IF st.inst THEN st
  ELSE [LowWrite(Migrate(safeRead([st EXCEPT !.data = createDefaultDb]), rnd, now))
          EXCEPT !.inst = TRUE]

\* readDb's return
Returned(st) == [st |-> st, value |-> st.data]

\* readDb: returns [st, value]
readDb(st, rnd, now) == Returned(Migrate(safeRead(initDb(st, rnd, now)), rnd, now))

\* A writeDb that calls db.write() in a finally block, so that the draft of
\* a callback that threw reaches the file.
Commit_WritesDraftOnError(read, r) ==
  [st |-> LowWrite([read EXCEPT !.data = r.draft]), err |-> r.err, value |-> r.draft]

\* writeDb from its callback on: r is what the callback did, [err, draft]
Commit(read, r) ==
  IF r.err # ""
  THEN [st |-> [read EXCEPT !.data = r.draft], err |-> r.err, value |-> r.draft]
  ELSE [st |-> LowWrite([read EXCEPT !.data = r.draft]), err |-> "", value |-> r.draft]

\* writeDb once initDb and safeRead have run
WriteRead(read, mutator, rnd, now) ==
  Commit(read, ApplyMutator(mutator, migrateDb(read.data, rnd, now)))

\* writeDb: returns [st, err, value]
writeDb(st, mutator, rnd, now) ==
  WriteRead(safeRead(initDb(st, rnd, now)), mutator, rnd, now)

(***************************************************************************)
(* The state                                                               *)
(***************************************************************************)
VARIABLES
  file,     \* the decoded content of db.json
  inst,     \* whether this process has set dbInstance
  data,     \* db.data of this process
  cache,    \* the final cache directory of every template id
  scratch,  \* the scratch directories on disk: [id, ts, dir]
  now,      \* the clock that new Date() and Date.now() read
  op,       \* the operation in progress, with its local variables
  dbInstance, \* concurrent callers: dbInstance of every process
  lows,       \* concurrent callers: the Low handles, by the call that made them
  calls,      \* concurrent callers: the frame of every writeDb call
  lastWriter  \* concurrent callers: the call whose write reached the file last

raceVars == <<dbInstance, lows, calls, lastWriter>>

vars == <<file, inst, data, cache, scratch, now, op, raceVars>>

\* Bounds of the model
\* No operation starts once the clock has passed MaxNow.
MaxNow == 5

TemplateIds == {"t1", "t2"}
GenProfileIds == {"ai_1", "ai_2", "ai_3"}

St == Store(file, inst, data)

SetStore(st) == file' = st.file /\ inst' = st.inst /\ data' = st.data

\* The identifiers randomUUID can yield for the migration of st's file.
RndFor(st) == IF DrawsProfileId(st.file) THEN GenProfileIds ELSE {"-"}

(***************************************************************************)
(* Directories.  A directory is absent, a complete working tree (a clone   *)
(* that succeeded: its origin address and the sub-directories it holds),   *)
(* or the partial content a failed transfer leaves behind.                 *)
(***************************************************************************)
NoDir == [exists |-> FALSE, complete |-> FALSE, origin |-> <<>>, subs |-> {}]

Tree(origin, subs) ==
  [exists |-> TRUE, complete |-> TRUE, origin |-> origin, subs |-> subs]

PartialDir(origin) ==
  [exists |-> TRUE, complete |-> FALSE, origin |-> origin, subs |-> {}]

SubPaths == {"p"}

\* An fs.remove(tempDir) that leaves the directory where it is.
RemoveScratch_Keeps(sc, id, ts) == sc

\* fs.remove(tempDir)
RemoveScratch(sc, id, ts) == {e \in sc : ~(e.id = id /\ e.ts = ts)}

\* The content of tempDir
ScratchDir(sc, id, ts) ==
  IF \E e \in sc : e.id = id /\ e.ts = ts
  THEN (CHOOSE e \in sc : e.id = id /\ e.ts = ts).dir
  ELSE NoDir

\* fs.pathExists(path.join(dir, subPath)), and of dir itself without subPath
PathExists(dir, subPath) ==
  dir.exists /\ (subPath \in {Undef, ""} \/ subPath \in dir.subs)

(***************************************************************************)
(* The frame of an operation                                               *)
(***************************************************************************)
UndefSource == <<Undef>>

NoTemplate == TemplateRecord("", "", Undef, <<>>, Undef, Undef, {}, 0, 0, Undef)

NoInput ==
  [id |-> Undef, name |-> Undef, description |-> Undef, source |-> UndefSource,
   branch |-> Undef, subPath |-> Undef, variables |-> {}]

NoPre == [file |-> createDefaultDb, cache |-> [t \in TemplateIds |-> NoDir],
          scratch |-> {}, templates |-> <<>>, loads |-> {}]

Idle ==
  [pc |-> "idle", name |-> "", id |-> "", input |-> NoInput, ts |-> 0,
   outer |-> NoTemplate, template |-> NoTemplate, candidates |-> <<>>, i |-> 0,
   errors |-> <<>>, attempts |-> <<>>, usedSource |-> <<>>, err |-> "",
   syncs |-> 0, value |-> createDefaultDb, pre |-> NoPre, spre |-> NoPre]

\* What a load at this moment returns as templates.
LoadedTemplates(st) == readDb(st, "-", now).value.templates

\* The documents a load at this moment can return (one, unless the migration
\* draws a profile identifier).
Loads(st) == {readDb(st, rnd, now).value : rnd \in RndFor(st)}

\* What an operation finds when it starts; the frame keeps it for comparison.
Snapshot ==
  [file |-> file, cache |-> cache, scratch |-> scratch,
   templates |-> LoadedTemplates(St), loads |-> Loads(St)]

Begin(name, id, input) ==
  [Idle EXCEPT !.name = name, !.id = id, !.input = input,
               !.pre = Snapshot]

Done(frame, err) == [frame EXCEPT !.pc = "done", !.err = err]

\* Where control goes when syncTemplate returns (err = "") or throws to the
\* operation that called it.
SyncReturn(frame, err) ==
  CASE frame.name = "add" ->
         IF err = "" THEN Done(frame, "")
         ELSE [frame EXCEPT !.pc = "add_rollback", !.err = err]
    [] frame.name = "resolve" ->
         IF err = "" THEN [frame EXCEPT !.pc = "resolve_check"]
         ELSE Done(frame, err)
    [] OTHER -> Done(frame, err)

CallSync(frame) == [frame EXCEPT !.pc = "sync_get", !.syncs = frame.syncs + 1]

\* getTemplateById's find on what readDb returned
FoundAt(r, index) ==
  IF index = 0 THEN [st |-> r.st, err |-> "notfound", template |-> NoTemplate]
  ELSE [st |-> r.st, err |-> "", template |-> r.value.templates[index]]

FindTemplate(r, id) ==
  FoundAt(r, FirstIndex({i \in 1..Len(r.value.templates) : r.value.templates[i].id = id}))

\* getTemplateById: returns [st, err, template]
getTemplateById(st, id, rnd, t) == FindTemplate(readDb(st, rnd, t), id)

(***************************************************************************)
(* The inputs of the operations                                            *)
(***************************************************************************)
SrcBare == <<"acme", "/", "tpl">>
SrcHost == <<"github", ".", "com", "/", "acme", "/", "tpl">>
SrcOpaque == <<"/", "srv", "/", "tpl">>
SrcBadPath == <<"github", ".", "com", "/", "acme">>

BadVars == <<[key |-> "", required |-> "true"]>>

AddInput(id, name, source, subPath, variables) ==
  [id |-> id, name |-> name, description |-> Undef, source |-> source,
   branch |-> Undef, subPath |-> subPath, variables |-> variables]

AddInputs ==
  { AddInput(Undef, "a", SrcBare, Undef, {}),
    AddInput(Undef, "b", SrcHost, "p", {<<[key |-> "owner", required |-> "true"]>>}),
    AddInput("t1", "b", SrcOpaque, Undef, {}),
    AddInput(Undef, "", SrcHost, Undef, {}),
    AddInput(Undef, "b", SrcBare, Undef, {BadVars}),
    AddInput(Undef, "a", SrcBadPath, Undef, {}) }

UpdateInputs ==
  { NoInput,
    [NoInput EXCEPT !.name = "b"],
    [NoInput EXCEPT !.name = ""],
    [NoInput EXCEPT !.source = SrcHost],
    [NoInput EXCEPT !.source = SrcBare],
    [NoInput EXCEPT !.source = SrcBadPath],
    [NoInput EXCEPT !.subPath = "p"],
    [NoInput EXCEPT !.variables = {BadVars}] }

\* Why a transfer fails (asErrorMessage of git's error).
FailReasons == {"denied", "missing"}

\* What createTemplateId can yield: an identifier nothing on disk carries.
FreshTemplateIds ==
  {t \in TemplateIds :
     /\ \A i \in 1..Len(file.templates) : file.templates[i].id # t
     /\ ~cache[t].exists
     /\ \A e \in scratch : e.id # t}

\* An operation starts when none is in progress.  The clock is strictly
\* monotonic: every new Date() and Date.now() reads it and moves it on.
CanStart == op.pc = "idle" /\ now <= MaxNow

(***************************************************************************)
(* core/template-service.ts                                                *)
(***************************************************************************)
\* listTemplates: a load
Loaded(frame, r) ==
  /\ SetStore(r.st)
  /\ op' = [Done(frame, "") EXCEPT !.value = r.value]

ListTemplates ==
  /\ CanStart
  /\ \E rnd \in RndFor(St) : Loaded(Begin("load", "", NoInput), readDb(St, rnd, now))
  /\ UNCHANGED <<raceVars, cache, scratch, now>>

\* addTemplate from the return of writeDb (w) to its call of syncTemplate
AddTemplateWritten(frame, record, w) ==
  /\ SetStore(w.st)
  /\ op' = IF w.err # "" THEN Done(frame, w.err)
           ELSE IF \A i \in 1..Len(w.value.templates) : w.value.templates[i].id # record.id
           THEN Done(frame, "failed")
           ELSE CallSync([frame EXCEPT !.value = w.value])

\* addTemplate from the record it builds
AddTemplateRecord(frame, record, rnd) ==
  AddTemplateWritten(frame, record,
                     writeDb(St, [kind |-> "add", record |-> record], rnd, now))

\* addTemplate from the normalized address
AddTemplateNormalized(frame, input, normalized) ==
  IF normalized.err # ""
  THEN /\ op' = Done(frame, normalized.err)
       /\ UNCHANGED <<raceVars, file, inst, data>>
  ELSE \E rnd \in RndFor(St) :
       \E id \in IF input.id \in {Undef, ""} THEN FreshTemplateIds ELSE {input.id} :
         AddTemplateRecord([frame EXCEPT !.id = id],
                           TemplateRecord(id, input.name, input.description,
                                          normalized.value, input.branch,
                                          input.subPath, input.variables,
                                          now, now, Undef),
                           rnd)

\* addTemplate up to its call of syncTemplate
AddTemplate(input) ==
  /\ CanStart
  /\ AddTemplateNormalized(Begin("add", "", input), input,
                           normalizeTemplateGitSource(input.source))
  /\ now' = now + 1
  /\ UNCHANGED <<raceVars, cache, scratch>>

\* addTemplate's catch: take the record out again and rethrow
AddRollback ==
  /\ op.pc = "add_rollback"
  /\ \E rnd \in RndFor(St) :
       SetStore(writeDb(St, [kind |-> "filter", id |-> op.id], rnd, now).st)
  /\ op' = Done(op, op.err)
  /\ UNCHANGED <<raceVars, cache, scratch, now>>

\* updateTemplate from the return of writeDb (w) to its call of syncTemplate
UpdateTemplateWritten(frame, id, w) ==
  /\ SetStore(w.st)
  /\ op' = IF w.err # "" THEN Done(frame, w.err)
           ELSE IF \A i \in 1..Len(w.value.templates) : w.value.templates[i].id # id
           THEN Done(frame, "failed")
           ELSE CallSync([frame EXCEPT !.value = w.value])

\* updateTemplate from the normalized address
UpdateTemplateNormalized(frame, id, input, rnd, st, normalized) ==
  IF normalized.err # ""
  THEN SetStore(st) /\ op' = Done(frame, normalized.err)
  ELSE UpdateTemplateWritten(frame, id,
         writeDb(st, [kind |-> "update", id |-> id, input |-> input,
                      normalizedSource |-> normalized.value, now |-> now],
                 rnd, now))

\* updateTemplate from the return of getTemplateById (g)
UpdateTemplateFound(frame, id, input, rnd, g) ==
  IF g.err # ""
  THEN SetStore(g.st) /\ op' = Done(frame, g.err)
  ELSE UpdateTemplateNormalized(frame, id, input, rnd, g.st,
         normalizeTemplateGitSource(IF input.source = UndefSource
                                    THEN g.template.source ELSE input.source))

\* updateTemplate up to its call of syncTemplate
UpdateTemplate(id, input) ==
  /\ CanStart
  /\ \E rnd \in RndFor(St) :
       UpdateTemplateFound(Begin("update", id, input), id, input, rnd,
                           getTemplateById(St, id, rnd, now))
  /\ now' = now + 1
  /\ UNCHANGED <<raceVars, cache, scratch>>

\* removeTemplate from the return of getTemplateById (g)
RemoveTemplateFound(frame, id, rnd, g) ==
  IF g.err # ""
  THEN SetStore(g.st) /\ op' = Done(frame, g.err)
  ELSE /\ SetStore(writeDb(g.st, [kind |-> "filter", id |-> id], rnd, now).st)
       /\ op' = [frame EXCEPT !.pc = "remove_rm"]

\* removeTemplate up to the removal of the cache directory
RemoveTemplate(id) ==
  /\ CanStart
  /\ \E rnd \in RndFor(St) :
       RemoveTemplateFound(Begin("remove", id, NoInput), id, rnd,
                           getTemplateById(St, id, rnd, now))
  /\ UNCHANGED <<raceVars, cache, scratch, now>>

\* removeTemplate: fs.remove(getTemplateCacheDir(id))
RemoveCache ==
  /\ op.pc = "remove_rm"
  /\ cache' = [cache EXCEPT ![op.id] = NoDir]
  /\ op' = Done(op, "")
  /\ UNCHANGED <<raceVars, file, inst, data, scratch, now>>

\* What the environment saw of one transfer: the address git was given and
\* how it ended ("ok", or why it failed).  The frame keeps them in order.
Attempt(source, outcome) == [source |-> source, outcome |-> outcome]

\* A cloneGitTemplate that reports the last failure only.
PushError_KeepsLast(errors, source, reason) ==
  <<[source |-> source, reason |-> reason]>>

\* cloneGitTemplate: errors.push(`${source}: ${asErrorMessage(error)}`)
PushError(errors, source, reason) ==
  Append(errors, [source |-> source, reason |-> reason])

\* A syncTemplate without the subPath test.
SubPathMissing_Never(template, dir) == FALSE

\* syncTemplate: the record declares a subPath and the fetched tree lacks it
SubPathMissing(template, dir) ==
  /\ template.subPath \notin {Undef, ""}
  /\ ~PathExists(dir, template.subPath)

\* a direct call of syncTemplate
SyncTemplate(id) ==
  /\ CanStart
  /\ op' = CallSync(Begin("sync", id, NoInput))
  /\ UNCHANGED <<raceVars, file, inst, data, cache, scratch, now>>

\* syncTemplate from the candidate list (built) on
SyncBuilt(frame, template, built) ==
  IF built.err # ""
  THEN op' = SyncReturn(frame, built.err) /\ UNCHANGED scratch
  ELSE /\ op' = [frame EXCEPT !.pc = "sync_clone", !.template = template,
                              !.ts = now, !.candidates = built.value,
                              !.i = 1, !.errors = <<>>, !.attempts = <<>>]
       /\ scratch' = RemoveScratch(scratch, frame.id, now)

\* syncTemplate from the return of getTemplateById (g)
SyncFound(frame, g) ==
  /\ SetStore(g.st)
  /\ IF g.err # ""
     THEN op' = SyncReturn(frame, g.err) /\ UNCHANGED scratch
     ELSE SyncBuilt(frame, g.template,
                    buildTemplateGitSourceCandidates(g.template.source))

\* syncTemplate: read the record, name the scratch directory, build the
\* candidates and remove the scratch directory
SyncGet ==
  /\ op.pc = "sync_get"
  /\ \E rnd \in RndFor(St) :
       SyncFound([op EXCEPT !.spre = Snapshot], getTemplateById(St, op.id, rnd, now))
  /\ now' = now + 1
  /\ UNCHANGED <<raceVars, cache>>

\* cloneGitTemplate: the transfer of candidate i succeeds
CloneSucceeds ==
  /\ op.pc = "sync_clone"
  /\ \E subs \in SUBSET SubPaths :
       LET source == op.candidates[op.i]
       IN /\ scratch' = RemoveScratch(scratch, op.id, op.ts)
                          \cup {[id |-> op.id, ts |-> op.ts, dir |-> Tree(source, subs)]}
          /\ op' = [op EXCEPT !.pc = "sync_check", !.usedSource = source,
                              !.attempts = Append(op.attempts, Attempt(source, "ok"))]
  /\ UNCHANGED <<raceVars, file, inst, data, cache, now>>

\* cloneGitTemplate's catch and the next turn of its loop
CloneFailed(source, reason, errors) ==
  op' = IF op.i < Len(op.candidates)
        THEN [op EXCEPT !.i = op.i + 1, !.errors = errors,
                        !.attempts = Append(op.attempts, Attempt(source, reason))]
        ELSE [op EXCEPT !.pc = "sync_catch", !.err = "transfer", !.errors = errors,
                        !.attempts = Append(op.attempts, Attempt(source, reason))]

\* cloneGitTemplate: the transfer of candidate i fails, and may leave a
\* partly written directory
CloneFails ==
  /\ op.pc = "sync_clone"
  /\ \E reason \in FailReasons :
       CloneFailed(op.candidates[op.i], reason,
                   PushError(op.errors, op.candidates[op.i], reason))
  /\ \E leaves \in BOOLEAN :
       scratch' = RemoveScratch(scratch, op.id, op.ts)
                    \cup (IF leaves
                          THEN {[id |-> op.id, ts |-> op.ts,
                                 dir |-> PartialDir(op.candidates[op.i])]}
                          ELSE {})
  /\ UNCHANGED <<raceVars, file, inst, data, cache, now>>

\* syncTemplate: the declared subPath must exist in the fetched tree
SyncCheckSubPath ==
  /\ op.pc = "sync_check"
  /\ op' = IF SubPathMissing(op.template, ScratchDir(scratch, op.id, op.ts))
           THEN [op EXCEPT !.pc = "sync_catch", !.err = "subpath"]
           ELSE [op EXCEPT !.pc = "sync_rmfinal"]
  /\ UNCHANGED <<raceVars, file, inst, data, cache, scratch, now>>

\* syncTemplate: fs.remove(finalDir)
SyncRemoveFinal ==
  /\ op.pc = "sync_rmfinal"
  /\ cache' = [cache EXCEPT ![op.id] = NoDir]
  /\ op' = [op EXCEPT !.pc = "sync_move"]
  /\ UNCHANGED <<raceVars, file, inst, data, scratch, now>>

\* syncTemplate: fs.move(tempDir, finalDir)
SyncMove ==
  /\ op.pc = "sync_move"
  /\ cache' = [cache EXCEPT ![op.id] = ScratchDir(scratch, op.id, op.ts)]
  /\ scratch' = RemoveScratch(scratch, op.id, op.ts)
  /\ op' = IF op.usedSource # op.template.source
           THEN [op EXCEPT !.pc = "sync_writeback"]
           ELSE SyncReturn(op, "")
  /\ UNCHANGED <<raceVars, file, inst, data, now>>

\* syncTemplate: write the address that worked back to the record
SyncWriteBack ==
  /\ op.pc = "sync_writeback"
  /\ \E rnd \in RndFor(St) :
       SetStore(writeDb(St, [kind |-> "writeback", id |-> op.id,
                             usedSource |-> op.usedSource, now |-> now],
                        rnd, now).st)
  /\ op' = SyncReturn(op, "")
  /\ now' = now + 1
  /\ UNCHANGED <<raceVars, cache, scratch>>

\* syncTemplate's catch: remove the scratch directory and rethrow
SyncCatch ==
  /\ op.pc = "sync_catch"
  /\ scratch' = RemoveScratch(scratch, op.id, op.ts)
  /\ op' = SyncReturn(op, op.err)
  /\ UNCHANGED <<raceVars, file, inst, data, cache, now>>

\* resolveTemplateDir from the return of getTemplateById (g)
\* A resolveTemplateDir that syncs whether or not the cache is there.
ResolveFound_AlwaysSyncs(frame, id, g) ==
  /\ SetStore(g.st)
  /\ op' = IF g.err # "" THEN Done(frame, g.err)
           ELSE CallSync([frame EXCEPT !.outer = g.template])

ResolveFound(frame, id, g) ==
  /\ SetStore(g.st)
  /\ op' = IF g.err # "" THEN Done(frame, g.err)
           ELSE IF ~cache[id].exists
           THEN CallSync([frame EXCEPT !.outer = g.template])
           ELSE [frame EXCEPT !.pc = "resolve_check", !.outer = g.template]

\* resolveTemplateDir up to its call of syncTemplate
ResolveTemplateDir(id) ==
  /\ CanStart
  /\ \E rnd \in RndFor(St) :
       ResolveFound(Begin("resolve", id, NoInput), id,
                    getTemplateById(St, id, rnd, now))
  /\ UNCHANGED <<raceVars, cache, scratch, now>>

\* resolvedDir: the cache directory of the record, joined with its subPath
\* when it has one
ResolvedDir(template) ==
  [baseDir |-> template.id,
   subPath |-> IF template.subPath \in {Undef, ""} THEN Undef ELSE template.subPath]

\* resolveTemplateDir: the resolved directory must exist
ResolveCheck ==
  /\ op.pc = "resolve_check"
  /\ op' = IF PathExists(cache[op.id], op.outer.subPath)
           THEN [Done(op, "") EXCEPT !.value = ResolvedDir(op.outer)]
           ELSE Done(op, "nodir")
  /\ UNCHANGED <<raceVars, file, inst, data, cache, scratch, now>>

(***************************************************************************)
(* The environment                                                         *)
(***************************************************************************)
\* The operation has returned or thrown: the caller goes on.
Return ==
  /\ op.pc = "done"
  /\ op' = Idle
  /\ UNCHANGED <<raceVars, file, inst, data, cache, scratch, now>>

\* The command ends and the next one runs in a new process, with no dbInstance.
NewProcess ==
  /\ op.pc = "idle"
  /\ inst
  /\ inst' = FALSE
  /\ data' = createDefaultDb
  /\ UNCHANGED <<raceVars, file, cache, scratch, now, op>>

\* The process is terminated in the middle of an operation: its memory is
\* lost, the file system stays as it is.
Crash ==
  /\ op.pc \notin {"idle", "done", "crashed"}
  /\ op' = [op EXCEPT !.pc = "crashed", !.err = op.pc]
  /\ inst' = FALSE
  /\ data' = createDefaultDb
  /\ UNCHANGED <<raceVars, file, cache, scratch, now>>

EmptyFile == DbValue("corrupt", 0, FALSE, <<>>, AiSettings(Undef, <<>>))

(***************************************************************************)
(* Callers that run at the same time (db/store.ts at the grain of its      *)
(* awaits).  A call is one writeDb; the processes share db.json only.      *)
(***************************************************************************)
Procs == {"p1", "p2"}
Calls == {"c1", "c2", "c3"}

\* A Low handle: db.data and the writes its adapter has queued (steno's
\* Writer replaces the file atomically, one write of a handle after another).
NoLow == [data |-> createDefaultDb, queue |-> <<>>]

\* A call that has not started: its process, its db, the text its pending
\* read returned or its pending write carries, and whether that I/O is done.
NoCall ==
  [pc |-> "idle", proc |-> "", db |-> "", buf |-> EmptyFile, io |-> "none",
   err |-> "", value |-> createDefaultDb]

NoRace ==
  /\ dbInstance = [p \in Procs |-> "null"]
  /\ lows = [c \in Calls |-> NoLow]
  /\ calls = [c \in Calls |-> NoCall]
  /\ lastWriter = ""

Init ==
  /\ NoRace
  /\ file = EmptyFile
  /\ inst = FALSE
  /\ data = createDefaultDb
  /\ cache = [t \in TemplateIds |-> NoDir]
  /\ scratch = {}
  /\ now = 1
  /\ op = Idle

Next ==
  \/ ListTemplates
  \/ \E input \in AddInputs : AddTemplate(input)
  \/ AddRollback
  \/ \E id \in TemplateIds, input \in UpdateInputs : UpdateTemplate(id, input)
  \/ \E id \in TemplateIds : RemoveTemplate(id)
  \/ RemoveCache
  \/ \E id \in TemplateIds : SyncTemplate(id)
  \/ SyncGet
  \/ CloneSucceeds
  \/ CloneFails
  \/ SyncCheckSubPath
  \/ SyncRemoveFinal
  \/ SyncMove
  \/ SyncWriteBack
  \/ SyncCatch
  \/ \E id \in TemplateIds : ResolveTemplateDir(id)
  \/ ResolveCheck
  \/ Return
  \/ NewProcess

Spec == Init /\ [][Next]_vars

\* The same program when the process may be terminated at any step.
NextOrCrash ==
  \/ Next
  \/ Crash

CrashSpec == Init /\ [][NextOrCrash]_vars

\* The cache directory of a stored template is wiped from outside while the
\* process is between two operations.
WipeCache ==
  /\ op.pc = "idle"
  /\ \E id \in TemplateIds :
       /\ cache[id].exists
       /\ file.kind = "object"
       /\ \E i \in 1..Len(file.templates) : file.templates[i].id = id
       /\ cache' = [cache EXCEPT ![id] = NoDir]
  /\ UNCHANGED <<raceVars, file, inst, data, scratch, now, op>>

\* The same program when the cache may be wiped between two operations.
NextOrWipe ==
  \/ Next
  \/ WipeCache

WipeSpec == Init /\ [][NextOrWipe]_vars

\* The same program started on a store that earlier runs have filled: two
\* templates, each with the cache directory its last sync fetched.  The
\* records are older than the run: their timestamps are 1 and the clock
\* stands at 2.
StockedTemplates ==
  << TemplateRecord("t1", "a", Undef,
                    <<"https", ":", "/", "/", "github", ".", "com", "/",
                      "acme", "/", "tpl", ".", "git">>,
                    Undef, Undef, {}, 1, 1, Undef),
     TemplateRecord("t2", "b", Undef, SrcOpaque, Undef, "p", {}, 1, 1, Undef) >>

StockedInit ==
  /\ NoRace
  /\ file = DbValue("object", CURRENT_DB_VERSION, TRUE, StockedTemplates,
                    AiSettings(Undef, <<>>))
  /\ inst = FALSE
  /\ data = createDefaultDb
  /\ cache = [t \in TemplateIds |->
               IF t = "t1" THEN Tree(StockedTemplates[1].source, {})
               ELSE Tree(StockedTemplates[2].source, {"p"})]
  /\ scratch = {}
  /\ now = 2
  /\ op = Idle

StockedSpec == StockedInit /\ [][Next]_vars

(***************************************************************************)
(* core/ai-service.ts: the operations that write the AI settings           *)
(***************************************************************************)
SetAiConfigInput(profileName, baseURL, apiKey, model, timeoutMs, activate) ==
  [profileName |-> profileName, baseURL |-> baseURL, apiKey |-> apiKey,
   model |-> model, timeoutMs |-> timeoutMs, activate |-> activate]

SetConfigInputs ==
  { SetAiConfigInput(Undef, Undef, Undef, Undef, NumUndef, Undef),
    SetAiConfigInput(Undef, Undef, "k1", Undef, NumUndef, Undef),
    SetAiConfigInput(" work ", Undef, "k2", Undef, Num("frac", 1), "false"),
    SetAiConfigInput("work", Undef, "  ", Undef, Num("frac", 0), Undef),
    SetAiConfigInput("  ", Undef, "k2", Undef, Num("nan", 0), Undef) }

UseIdentifiers == {"  ", " work ", "default", "p1", "nope"}

\* What createProfileId can yield: an identifier no stored profile carries.
FreshProfileIds ==
  {p \in GenProfileIds :
     /\ \A i \in 1..Len(file.ai.profiles) : file.ai.profiles[i].id # p
     /\ \A i \in 1..Len(data.ai.profiles) : data.ai.profiles[i].id # p}

\* setConfig and useConfig from the return of writeDb (w)
ConfigWritten(frame, w) ==
  /\ SetStore(w.st)
  /\ op' = [Done(frame, w.err) EXCEPT !.value = w.value]

\* setConfig
SetConfig(input) ==
  /\ CanStart
  /\ \E rnd \in RndFor(St) :
     \E newId \in FreshProfileIds \ {rnd} :
       ConfigWritten(Begin("setConfig", "", input),
                     writeDb(St, [kind |-> "setConfig",
                                  profileName |->
                                    OrElse(IF input.profileName = Undef THEN Undef
                                           ELSE TrimStr(input.profileName),
                                           DEFAULT_PROFILE_NAME),
                                  input |-> input, newId |-> newId, now |-> now],
                             rnd, now))
  /\ now' = now + 1
  /\ UNCHANGED <<raceVars, cache, scratch>>

\* useConfig
UseConfig(identifier) ==
  /\ CanStart
  /\ IF TrimStr(identifier) = ""
     THEN /\ op' = Done(Begin("useConfig", "", NoInput), "validation")
          /\ UNCHANGED <<raceVars, file, inst, data>>
     ELSE \E rnd \in RndFor(St) :
            ConfigWritten(Begin("useConfig", "", NoInput),
                          writeDb(St, [kind |-> "useConfig",
                                       target |-> TrimStr(identifier)], rnd, now))
  /\ UNCHANGED <<raceVars, cache, scratch, now>>

(***************************************************************************)
(* db/store.ts called with a caller's own callback                         *)
(***************************************************************************)
ValidRecord(id, name) ==
  TemplateRecord(id, name, Undef, <<"acme", "/", "tpl", ".", "git">>, Undef,
                 Undef, {}, 1, 1, Undef)

EditMutator_(clear, push, throws) ==
  [kind |-> "edit", clear |-> clear, push |-> push, throws |-> throws]

EditMutators ==
  { EditMutator_(TRUE, <<>>, TRUE),
    EditMutator_(FALSE, <<ValidRecord("t1", "a")>>, TRUE),
    EditMutator_(TRUE, <<ValidRecord("t2", "b")>>, FALSE),
    EditMutator_(FALSE, <<ValidRecord("t1", "")>>, FALSE) }

\* writeDb(mutator) from its return (w)
Mutated(frame, w) ==
  /\ Len(w.value.templates) <= 2
  /\ SetStore(w.st)
  /\ op' = [Done(frame, w.err) EXCEPT !.value = w.value]

\* writeDb(mutator)
Mutate(mutator) ==
  /\ CanStart
  /\ \E rnd \in RndFor(St) :
       Mutated(Begin("mutate", "", NoInput), writeDb(St, mutator, rnd, now))
  /\ UNCHANGED <<raceVars, cache, scratch, now>>

(***************************************************************************)
(* The store started on whatever db.json holds.  The file is older than the *)
(* run: its timestamps are 1 and the clock stands at 4.                    *)
(***************************************************************************)
DiskProfile(id, name, apiKey) ==
  AiProfile(id, name, "https://llm.example/v1", apiKey, "m1", Num("int", 1000), 1, 1)

DiskAi ==
  { AiValue("falsy", Undef, Undef, Undef, NumUndef, Undef, FALSE, <<>>),
    AiValue("scalar", Undef, Undef, Undef, NumUndef, Undef, FALSE, <<>>),
    \* the legacy flat configuration, valid and not
    AiValue("object", "https://llm.example/v1", "k0", "m1", Num("int", 1000),
            Undef, FALSE, <<>>),
    AiValue("object", "https://llm.example/v1", "k0", "m1", Num("frac", 0),
            Undef, FALSE, <<>>),
    \* the current settings: the active identifier names no profile, names a
    \* profile that fails the schema, is no string, or names the second profile
    AiSettings("gone", <<DiskProfile("p1", "default", "k0")>>),
    AiSettings("p1", <<DiskProfile("p1", "default", ""),
                       DiskProfile("p2", "work", "k0")>>),
    AiSettings(Bad, <<DiskProfile("p1", "default", "k0")>>),
    AiSettings("p2", <<DiskProfile("p1", "default", "k0"),
                       DiskProfile("p2", "work", "k0")>>),
    AiSettings("p1", <<>>) }

DiskTemplates ==
  { <<>>,
    <<ValidRecord("t1", "a"), ValidRecord("t2", "a")>>,
    <<ValidRecord("t1", "a"), ValidRecord("t1", "b")>>,
    <<ValidRecord("t1", ""), [ValidRecord("t2", "b") EXCEPT !.sourceType = "local"]>> }

DiskDocs ==
  { DbValue("corrupt", 0, FALSE, <<>>, AiSettings(Undef, <<>>)),
    DbValue("falsy", 0, FALSE, <<>>, AiSettings(Undef, <<>>)),
    DbValue("scalar", 0, FALSE, <<>>, AiSettings(Undef, <<>>)),
    DbValue("object", 1, FALSE, <<>>, AiSettings(Undef, <<>>)) }
  \cup { DbValue("object", 1, TRUE, t, a) : t \in DiskTemplates, a \in DiskAi }

StoreInit ==
  /\ NoRace
  /\ file \in DiskDocs
  /\ inst = FALSE
  /\ data = createDefaultDb
  /\ cache = [t \in TemplateIds |-> NoDir]
  /\ scratch = {}
  /\ now = 4
  /\ op = Idle

\* db.json is damaged from outside while the process is between two
\* operations: what it holds is no longer JSON.
Damage ==
  /\ op.pc = "idle"
  /\ file.kind # "corrupt"
  /\ file' = EmptyFile
  /\ UNCHANGED <<raceVars, inst, data, cache, scratch, now, op>>

StoreNext ==
  \/ ListTemplates
  \/ \E mutator \in EditMutators : Mutate(mutator)
  \/ \E input \in SetConfigInputs : SetConfig(input)
  \/ \E identifier \in UseIdentifiers : UseConfig(identifier)
  \/ Return
  \/ NewProcess

StoreSpec == StoreInit /\ [][StoreNext]_vars

\* The same store when the file may be damaged between two operations.
StoreNextOrDamage ==
  \/ StoreNext
  \/ Damage

DamageSpec == StoreInit /\ [][StoreNextOrDamage]_vars

(***************************************************************************)
(* db/store.ts with callers that run at the same time.                     *)
(*                                                                         *)
(* writeDb is an async function: it gives up control at each await, and    *)
(* what runs between two awaits runs alone.  db.read() ends once the file  *)
(* has been read (ReadFile); db.write() takes the text of db.data when it  *)
(* is called and ends once that text has replaced the file (WriteFile).    *)
(* Calls start in the order c1, c2, c3; call c appends the record named c. *)
(***************************************************************************)
baseVars == <<inst, data, cache, scratch, now, op>>

CallOrder == <<"c1", "c2", "c3">>

CallRecord(c) == ValidRecord(c, c)

CallMutator(c) == EditMutator_(FALSE, <<CallRecord(c)>>, FALSE)

\* Low.read: `if (data) this.data = data`
LowRead(lowData, buf) == IF buf.kind = "falsy" THEN lowData ELSE buf

\* await db.read(): the call waits for the file
IssueRead(c, frame, pc) ==
  calls' = [calls EXCEPT ![c] = [frame EXCEPT !.pc = pc, !.io = "pending"]]

\* An IssueWrite under an advisory lock on the file: the write is refused
\* while a handle of another call has a write pending.
IssueWrite_Locked(c, frame, newData, pc) ==
  IF \E h \in Calls : h # frame.db /\ lows[h].queue # <<>>
  THEN /\ lows' = [lows EXCEPT ![frame.db].data = newData]
       /\ calls' = [calls EXCEPT ![c] = [frame EXCEPT !.pc = "done", !.io = "none",
                                                      !.err = "locked"]]
  ELSE /\ lows' = [lows EXCEPT ![frame.db] =
                     [data |-> newData, queue |-> Append(lows[frame.db].queue, c)]]
       /\ calls' = [calls EXCEPT ![c] = [frame EXCEPT !.pc = pc, !.buf = newData,
                                                      !.io = "pending"]]

\* db.data = newData; await db.write(): the text of db.data joins the writes
\* of the handle
IssueWrite(c, frame, newData, pc) ==
  /\ lows' = [lows EXCEPT ![frame.db] =
                [data |-> newData, queue |-> Append(lows[frame.db].queue, c)]]
  /\ calls' = [calls EXCEPT ![c] = [frame EXCEPT !.pc = pc, !.buf = newData,
                                                 !.io = "pending"]]

\* writeDb is called in process p: initDb returns dbInstance or makes a
\* handle of its own, and the first read is under way.
CallWriteDb(c, p) ==
  /\ calls[c].pc = "idle"
  /\ \A i \in 1..Len(CallOrder) :
       CallOrder[i] = c => \A j \in 1..(i - 1) : calls[CallOrder[j]].pc # "idle"
  /\ IF dbInstance[p] # "null"
     THEN IssueRead(c, [NoCall EXCEPT !.proc = p, !.db = dbInstance[p]], "read")
     ELSE IssueRead(c, [NoCall EXCEPT !.proc = p, !.db = c], "init_read")
  /\ UNCHANGED <<baseVars, file, dbInstance, lows, lastWriter>>

\* The file system serves a read: the call has the content of the file.
ReadFile(c) ==
  /\ calls[c].pc \in {"init_read", "read"}
  /\ calls[c].io = "pending"
  /\ calls' = [calls EXCEPT ![c].buf = file, ![c].io = "ready"]
  /\ UNCHANGED <<baseVars, file, dbInstance, lows, lastWriter>>

\* The oldest write of handle h replaces the file.
WriteFile(h) ==
  /\ lows[h].queue # <<>>
  /\ file' = calls[Head(lows[h].queue)].buf
  /\ lastWriter' = Head(lows[h].queue)
  /\ calls' = [calls EXCEPT ![Head(lows[h].queue)].io = "ready"]
  /\ lows' = [lows EXCEPT ![h].queue = Tail(lows[h].queue)]
  /\ UNCHANGED <<baseVars, dbInstance>>

\* initDb once safeRead has db.data (lines 40-41)
InitDbMigrate(c, frame, lowData) ==
  IssueWrite(c, frame, migrateDb(lowData, "-", now), "init_write")

\* writeDb from its callback on: r is what the callback did
CommitCall(c, frame, r) ==
  IF r.err # ""
  THEN /\ lows' = [lows EXCEPT ![frame.db].data = r.draft]
       /\ calls' = [calls EXCEPT ![c] = [frame EXCEPT !.pc = "done", !.io = "none",
                                                      !.err = r.err]]
  ELSE IssueWrite(c, frame, r.draft, "write")

\* writeDb once safeRead has db.data (lines 56-58)
WriteDbMutate(c, frame, lowData) ==
  CommitCall(c, frame, ApplyMutator(CallMutator(c), migrateDb(lowData, "-", now)))

\* safeRead in initDb, from the return of db.read()
InitDbRead(c) ==
  /\ calls[c].pc = "init_read"
  /\ calls[c].io = "ready"
  /\ IF calls[c].buf.kind = "corrupt"
     THEN IssueWrite(c, calls[c], createDefaultDb, "init_heal")
     ELSE InitDbMigrate(c, calls[c], LowRead(lows[calls[c].db].data, calls[c].buf))
  /\ UNCHANGED <<baseVars, file, dbInstance, lastWriter>>

\* safeRead in writeDb, from the return of db.read()
WriteDbRead(c) ==
  /\ calls[c].pc = "read"
  /\ calls[c].io = "ready"
  /\ IF calls[c].buf.kind = "corrupt"
     THEN IssueWrite(c, calls[c], createDefaultDb, "heal")
     ELSE WriteDbMutate(c, calls[c], LowRead(lows[calls[c].db].data, calls[c].buf))
  /\ UNCHANGED <<baseVars, file, dbInstance, lastWriter>>

\* safeRead's own write has reached the file: its caller goes on with db.data
Healed(c) ==
  /\ calls[c].pc \in {"init_heal", "heal"}
  /\ calls[c].io = "ready"
  /\ IF calls[c].pc = "init_heal"
     THEN InitDbMigrate(c, calls[c], lows[calls[c].db].data)
     ELSE WriteDbMutate(c, calls[c], lows[calls[c].db].data)
  /\ UNCHANGED <<baseVars, file, dbInstance, lastWriter>>

\* initDb's write has reached the file: dbInstance = db, and writeDb reads
InitDbWritten(c) ==
  /\ calls[c].pc = "init_write"
  /\ calls[c].io = "ready"
  /\ dbInstance' = [dbInstance EXCEPT ![calls[c].proc] = calls[c].db]
  /\ IssueRead(c, calls[c], "read")
  /\ UNCHANGED <<baseVars, file, lows, lastWriter>>

\* writeDb's write has reached the file: it returns a copy of db.data
WriteDbWritten(c) ==
  /\ calls[c].pc = "write"
  /\ calls[c].io = "ready"
  /\ calls' = [calls EXCEPT ![c].pc = "done", ![c].io = "none",
                            ![c].value = lows[calls[c].db].data]
  /\ UNCHANGED <<baseVars, file, dbInstance, lows, lastWriter>>

RaceNext ==
  \/ \E c \in Calls, p \in Procs : CallWriteDb(c, p)
  \/ \E c \in Calls : ReadFile(c)
  \/ \E h \in Calls : WriteFile(h)
  \/ \E c \in Calls : InitDbRead(c)
  \/ \E c \in Calls : WriteDbRead(c)
  \/ \E c \in Calls : Healed(c)
  \/ \E c \in Calls : InitDbWritten(c)
  \/ \E c \in Calls : WriteDbWritten(c)

RaceSpec == Init /\ [][RaceNext]_vars

(***************************************************************************)
(* db/migrations.ts on its own: migrateDb applied to a decoded value, and   *)
(* then to its own result.  op.input is the argument of the latest call and *)
(* data what it returned.                                                   *)
(***************************************************************************)
\* Records with a field missing, of the wrong type, or in excess
RawTemplates ==
  DiskTemplates \cup
  { <<[ValidRecord("t1", "a") EXCEPT !.name = Undef], ValidRecord("t2", "b")>>,
    <<[ValidRecord("t1", "a") EXCEPT !.description = Bad]>>,
    <<[ValidRecord("t1", "a") EXCEPT !.sourceType = "git", !.subPath = "p"]>>,
    <<[ValidRecord("t1", "a") EXCEPT !.createdAt = 0]>>,
    \* a deprecated record that is valid otherwise, between two valid ones
    <<ValidRecord("t1", "a"),
      [ValidRecord("t3", "c") EXCEPT !.sourceType = "local"],
      [ValidRecord("t2", "b") EXCEPT !.sourceType = "git"]>> }

\* The settings that also carry the keys of a valid flat configuration
RawAi ==
  DiskAi \cup
  { AiValue("object", "https://llm.example/v1", "k0", "m1", Num("int", 1000),
            "p1", TRUE, <<DiskProfile("p1", "work", "k1")>>),
    AiValue("object", Undef, Undef, Undef, NumUndef, "", TRUE,
            <<DiskProfile("p1", "default", "k0")>>),
    AiValue("object", Undef, Undef, Undef, NumUndef, Undef, TRUE,
            <<[DiskProfile("p1", "default", "k0") EXCEPT !.timeoutMs = Num("int", 0)]>>) }

\* The version field of the input: absent (0 here), older, current, newer
RawVersions == {0, 1, CURRENT_DB_VERSION, CURRENT_DB_VERSION + 1}

RawDocs ==
  DiskDocs
  \cup { DbValue("object", v, TRUE, t, a) :
           v \in RawVersions, t \in RawTemplates, a \in RawAi }
  \cup { DbValue("object", 1, TRUE, <<>>, AiSettings(Undef, <<>>)),
         createDefaultDb }

MigrateInit ==
  /\ NoRace
  /\ file = EmptyFile
  /\ inst = FALSE
  /\ data \in RawDocs \ {EmptyFile}
  /\ cache = [t \in TemplateIds |-> NoDir]
  /\ scratch = {}
  /\ now = 4
  /\ op = Idle

\* db.data = migrateDb(db.data); the clock is read when a profile is made
MigrateDbCalled(pc, rnd) ==
  /\ op' = [op EXCEPT !.pc = pc, !.input = data]
  /\ data' = migrateDb(data, rnd, now)
  /\ now' = IF DrawsProfileId(data) THEN now + 1 ELSE now
  /\ UNCHANGED <<raceVars, file, inst, cache, scratch>>

MigrateDbOnce ==
  /\ op.pc = "idle"
  /\ \E rnd \in IF DrawsProfileId(data) THEN GenProfileIds ELSE {"-"} :
       MigrateDbCalled("migrated", rnd)

\* migrateDb applied to what migrateDb returned
MigrateDbAgain ==
  /\ op.pc = "migrated"
  /\ \E rnd \in IF DrawsProfileId(data) THEN GenProfileIds ELSE {"-"} :
       MigrateDbCalled("migrated_again", rnd)

MigrateNext ==
  \/ MigrateDbOnce
  \/ MigrateDbAgain

MigrateSpec == MigrateInit /\ [][MigrateNext]_vars

(***************************************************************************)
(* utils/git-source.ts on its own: the two exported functions applied to   *)
(* an address.  An address is described by its parts, so that what the     *)
(* functions should return can be written down from the parts:             *)
(*   url    scheme "://" [user "@"] host [":" port] "/" path tail          *)
(*   scp    user "@" host ":" path                                         *)
(*   host   host "/" path                                                  *)
(*   repo   path                                                           *)
(*   local  path (a path of the local file system)                         *)
(*   empty  (nothing)                                                      *)
(* host and path come with their canonical text; pad adds a blank at both  *)
(* ends.                                                                   *)
(***************************************************************************)
HostCase(text, canon, known) == [text |-> text, canon |-> canon, known |-> known]

HostCases ==
  { HostCase(<<"github", ".", "com">>, <<"github", ".", "com">>, TRUE),
    HostCase(<<"GitHub", ".", "COM">>, <<"github", ".", "com">>, TRUE),
    HostCase(<<"gitlab", ".", "com">>, <<"gitlab", ".", "com">>, TRUE),
    HostCase(<<"gitee", ".", "com">>, <<"gitee", ".", "com">>, TRUE),
    HostCase(<<"git", ".", "example", ".", "com">>,
             <<"git", ".", "example", ".", "com">>, FALSE) }

\* canon is <<>> for a path of fewer than two segments.
PathCase(text, canon) == [text |-> text, canon |-> canon]

PathCases ==
  { PathCase(<<"acme", "/", "tpl">>, <<"acme", "/", "tpl", ".", "git">>),
    PathCase(<<"acme", "/", "tpl", ".", "git">>, <<"acme", "/", "tpl", ".", "git">>),
    PathCase(<<"acme", "/", "tpl", ".", "GIT">>, <<"acme", "/", "tpl", ".", "git">>),
    PathCase(<<"acme", "/", "tpl", "/">>, <<"acme", "/", "tpl", ".", "git">>),
    PathCase(<<"grp", "/", "sub", "/", "tpl">>,
             <<"grp", "/", "sub", "/", "tpl", ".", "git">>),
    PathCase(<<"acme", "/">>, <<>>) }

\* Paths that carry a "?" or a "#": in an scp-style, host/path or owner/repo
\* address they are part of the last segment.
MarkedPaths ==
  { PathCase(<<"acme", "/", "tpl", "?", "ref">>,
             <<"acme", "/", "tpl", "?", "ref", ".", "git">>),
    PathCase(<<"acme", "/", "tpl", "#", "main">>,
             <<"acme", "/", "tpl", "#", "main", ".", "git">>) }

LocalPaths ==
  { PathCase(<<"/", "srv", "/", "tpl">>, <<>>),
    PathCase(<<".", "/", "tpl">>, <<>>),
    PathCase(<<"~", "/", "tpl", ".", "git">>, <<>>),
    PathCase(<<"C", ":", "\\", "tpl">>, <<>>) }

NoHost == HostCase(<<>>, <<>>, FALSE)

AddressCase(form, scheme, user, host, port, path, tail, pad) ==
  [form |-> form, scheme |-> scheme, user |-> user, host |-> host, port |-> port,
   path |-> path, tail |-> tail, pad |-> pad]

Addresses ==
  { AddressCase("url", s, u, h, port, p, t, pad) :
      s \in {"https", "ssh", "http", "HTTPS"}, u \in {<<>>, <<"git">>, <<"bob">>},
      h \in HostCases, port \in {<<>>, <<":", "22">>}, p \in PathCases,
      t \in {<<>>, <<"?", "ref">>, <<"#", "main">>}, pad \in BOOLEAN }
  \cup { AddressCase("scp", "", u, h, <<>>, p, <<>>, pad) :
           u \in {<<"git">>, <<"bob">>}, h \in HostCases,
           p \in PathCases \cup MarkedPaths, pad \in BOOLEAN }
  \cup { AddressCase("host", "", <<>>, h, <<>>, p, <<>>, pad) :
           h \in HostCases, p \in PathCases \cup MarkedPaths, pad \in BOOLEAN }
  \cup { AddressCase("repo", "", <<>>, NoHost, <<>>, p, <<>>, pad) :
           p \in PathCases \cup MarkedPaths, pad \in BOOLEAN }
  \cup { AddressCase("local", "", <<>>, NoHost, <<>>, p, <<>>, pad) :
           p \in LocalPaths, pad \in BOOLEAN }
  \cup { AddressCase("empty", "", <<>>, NoHost, <<>>, PathCase(<<>>, <<>>), <<>>, pad) :
           pad \in BOOLEAN }

\* The address without its padding
AddressBody(a) ==
  CASE a.form = "url" ->
         <<a.scheme, ":", "/", "/">>
         \o (IF a.user = <<>> THEN <<>> ELSE a.user \o <<"@">>)
         \o a.host.text \o a.port \o <<"/">> \o a.path.text \o a.tail
    [] a.form = "scp" -> a.user \o <<"@">> \o a.host.text \o <<":">> \o a.path.text
    [] a.form = "host" -> a.host.text \o <<"/">> \o a.path.text
    [] OTHER -> a.path.text

\* The string handed to the functions
AddressText(a) ==
  IF a.pad THEN <<" ">> \o AddressBody(a) \o <<" ">> ELSE AddressBody(a)

\* The call has returned r, or thrown
ResolverReturned(frame, r) ==
  /\ op' = [Done(frame, r.err) EXCEPT !.candidates = r.value]
  /\ UNCHANGED <<raceVars, file, inst, data, cache, scratch, now>>

\* normalizeTemplateGitSource(source); the frame keeps the one string it
\* returned as a list of one.
NormalizeTemplateGitSource(a) ==
  /\ op.pc = "idle"
  /\ ResolverReturned([Idle EXCEPT !.name = "normalize", !.input = a],
                      [err |-> normalizeTemplateGitSource(AddressText(a)).err,
                       value |-> <<normalizeTemplateGitSource(AddressText(a)).value>>])

\* buildTemplateGitSourceCandidates(source)
BuildTemplateGitSourceCandidates(a) ==
  /\ op.pc = "idle"
  /\ ResolverReturned([Idle EXCEPT !.name = "candidates", !.input = a],
                      buildTemplateGitSourceCandidates(AddressText(a)))

\* buildTemplateGitSourceCandidates(c) for the k-th address c of the list the
\* function has just returned: what the next sync does when c is the
\* address the last one wrote back.  The frame keeps c and the second list.
BuildFromCandidate(k) ==
  /\ op.pc = "done"
  /\ op.name = "candidates"
  /\ op.err = ""
  /\ k \in 1..Len(op.candidates)
  /\ op' = [op EXCEPT !.name = "candidates_again",
                      !.i = k,
                      !.usedSource = op.candidates[k],
                      !.err = buildTemplateGitSourceCandidates(op.candidates[k]).err,
                      !.attempts = buildTemplateGitSourceCandidates(op.candidates[k]).value]
  /\ UNCHANGED <<raceVars, file, inst, data, cache, scratch, now>>

ResolverNext ==
  \/ \E a \in Addresses : NormalizeTemplateGitSource(a)
  \/ \E a \in Addresses : BuildTemplateGitSourceCandidates(a)
  \/ \E k \in 1..6 : BuildFromCandidate(k)
  \/ Return

ResolverSpec == Init /\ [][ResolverNext]_vars

(***************************************************************************)
(* Properties of the document store                                        *)
(***************************************************************************)
\* A writeDb whose callback threw has returned to its caller.
C1_MutatorRaised == op.pc = "done" /\ op.name = "mutate" /\ op.err # ""

\* C1, as stated: when the callback handed to writeDb raises, the backing
\* file is not written by that call (it holds what it held before), the
\* callback's error reaches the caller, and a later load returns what a load
\* before the call would have returned.
C1_FileNotWritten ==
  C1_MutatorRaised =>
    /\ op.err = "callback"
    /\ file = op.pre.file
    /\ Loads(St) \subseteq op.pre.loads

\* C1, amended: when the callback handed to writeDb raises, nothing the
\* callback did is persisted: the backing file holds what it held before the
\* call, or the document a load before the call would have returned (the
\* store's own reset of an unreadable file and its migration, which the first
\* call of a process writes before the callback runs); the callback's error
\* reaches the caller; a later load returns what a load before the call
\* would have returned.
C1_NothingOfMutatorPersisted ==
  C1_MutatorRaised =>
    /\ op.err = "callback"
    /\ file = op.pre.file \/ file \in op.pre.loads
    /\ Loads(St) \subseteq op.pre.loads

\* The callback had changed the draft before it threw.
C1_Witness == C1_MutatorRaised /\ op.value.templates # op.pre.templates

\* C3: after every store operation (a load, or the mutate of addTemplate,
\* updateTemplate, removeTemplate or the sync write-back), whatever document
\* the file held at the start, no two records of the resulting templates
\* sequence share an id and no two share a name.
NoDuplicates(templates) ==
  \A i, j \in 1..Len(templates) :
    i # j => /\ templates[i].id # templates[j].id
             /\ templates[i].name # templates[j].name

C3_NoDuplicateTemplates ==
  (op.pc = "done" /\ op.name \in {"load", "add", "update", "remove", "sync"})
    => /\ NoDuplicates(LoadedTemplates(St))
       /\ op.name = "load" => NoDuplicates(op.value.templates)

\* C4: after every store operation (load, setConfig, useConfig), whatever
\* document the file held at the start, ai.activeProfileId is null or the id
\* of a profile present in ai.profiles, in the document the operation
\* returns and in the one the file holds.
ActiveProfilePresent(ai) ==
  \/ ai.activeProfileId = Undef
  \/ \E i \in 1..Len(ai.profiles) : ai.profiles[i].id = ai.activeProfileId

C4_StoreOperationDone ==
  op.pc = "done" /\ op.name \in {"load", "setConfig", "useConfig"} /\ inst

C4_ActiveProfilePresent ==
  C4_StoreOperationDone =>
    /\ file.kind = "object"
    /\ ActiveProfilePresent(file.ai)
    /\ ActiveProfilePresent(data.ai)
    /\ op.err = "" => ActiveProfilePresent(op.value.ai)

\* The file named an active profile that is not among its valid profiles,
\* and the operation returned settings with an active profile.
C4_Witness ==
  /\ C4_StoreOperationDone
  /\ op.err = ""
  /\ op.pre.file.kind = "object"
  /\ op.pre.file.ai.kind = "object"
  /\ op.pre.file.ai.activeProfileId \notin {Undef, Bad}
  /\ \A i \in 1..Len(op.pre.file.ai.profiles) :
       op.pre.file.ai.profiles[i].id = op.pre.file.ai.activeProfileId
         => ~aiProfileSchema(op.pre.file.ai.profiles[i])
  /\ op.value.ai.activeProfileId # Undef

(***************************************************************************)
(* Properties of the template service                                      *)
(***************************************************************************)
\* addTemplate was called with the name or the explicit id of a stored
\* template and an address that passes normalizeTemplateGitSource.
C2_DuplicateAdd ==
  /\ op.name = "add"
  /\ normalizeTemplateGitSource(op.input.source).err = ""
  /\ \E i \in 1..Len(op.pre.templates) :
       \/ op.pre.templates[i].name = op.input.name
       \/ op.pre.templates[i].id = op.input.id

\* C2: addTemplate with the name (or an explicit id) of a stored template
\* raises a conflict error, with no sync and no rollback step run; a later
\* load returns the templates sequence a load before the call would have
\* returned, the backing file holds nothing of the call, and no cache or
\* scratch directory is touched.
C2_AddTemplateConflict ==
  C2_DuplicateAdd =>
    /\ op.pc = "done"
    /\ op.err = "conflict"
    /\ op.syncs = 0
    /\ LoadedTemplates(St) = op.pre.templates
    /\ file = op.pre.file \/ file \in op.pre.loads
    /\ cache = op.pre.cache
    /\ scratch = op.pre.scratch

\* The conflict is on the name alone, and the stored template has a cache.
C2_Witness ==
  /\ C2_DuplicateAdd
  /\ op.err = "conflict"
  /\ op.input.id = Undef
  /\ \E t \in TemplateIds : cache[t].exists

\* C5: every record written to the backing document passes its record
\* schema: after any sequence of addTemplate and updateTemplate calls, with
\* any argument values, every template record and every AI profile of the
\* persisted document passes its schema, so the migration of the next load
\* drops none.
C5_PersistedRecordsValid ==
  file.kind = "object" =>
    /\ \A i \in 1..Len(file.templates) : templateRecordSchema(file.templates[i])
    /\ \A i \in 1..Len(file.ai.profiles) : aiProfileSchema(file.ai.profiles[i])
    /\ Len(LoadedTemplates(St)) = Len(file.templates)

\* The process was terminated inside syncTemplate, after the step that read
\* the record, for a template that had a promoted cache directory.
C6_TerminatedInSync ==
  /\ op.pc = "crashed"
  /\ op.err \in {"sync_clone", "sync_check", "sync_rmfinal", "sync_move",
                 "sync_writeback", "sync_catch"}
  /\ op.spre.cache[op.id].exists

\* C6: when the process is terminated at any step of syncTemplate for a
\* template that has a promoted final cache directory, the final cache
\* directory afterwards exists and is the complete previous cache or the
\* complete newly fetched tree.
C6_PromotionAtomic ==
  C6_TerminatedInSync =>
    \/ cache[op.id] = op.spre.cache[op.id]
    \/ /\ cache[op.id].exists
       /\ cache[op.id].complete
       /\ cache[op.id].origin = op.usedSource

\* syncTemplate has thrown err to its caller.
SyncThrew(err) ==
  /\ op.syncs > 0
  /\ op.err = err
  /\ \/ op.pc = "add_rollback"
     \/ op.pc = "done" /\ op.name \in {"sync", "update", "resolve"}

\* C7: when the transfer of every candidate fails, syncTemplate raises one
\* error that lists every attempted candidate, in attempt order, with that
\* attempt's failure reason; when the error reaches the caller no scratch
\* directory of the template exists, the final cache directories are as
\* they were and the stored records are as they were.
C7_AllCandidatesFail ==
  SyncThrew("transfer") =>
    /\ Len(op.attempts) = Len(op.candidates)
    /\ \A i \in 1..Len(op.candidates) : op.attempts[i].source = op.candidates[i]
    /\ Len(op.errors) = Len(op.attempts)
    /\ \A i \in 1..Len(op.attempts) :
         /\ op.errors[i].source = op.attempts[i].source
         /\ op.errors[i].reason = op.attempts[i].outcome
    /\ \A e \in scratch : e.id # op.id
    /\ cache = op.spre.cache
    /\ LoadedTemplates(St) = op.spre.templates

\* Six candidates failed for different reasons, and the template has a cache.
C7_Witness ==
  /\ SyncThrew("transfer")
  /\ Len(op.errors) = 6
  /\ op.errors[1].reason # op.errors[2].reason
  /\ cache[op.id].exists

\* C8: promotion runs only for a fetched tree that holds the declared
\* subPath; when the tree lacks it, syncTemplate fails as a whole: the
\* transfer that succeeded is the last attempt, the final cache directories
\* are as they were, no scratch directory of the template exists, and the
\* stored records, the source among them, are as they were.
C8_SubPathMissing ==
  /\ op.pc \in {"sync_rmfinal", "sync_move"} =>
       LET dir == ScratchDir(scratch, op.id, op.ts)
       IN /\ dir.exists
          /\ \/ op.template.subPath \in {Undef, ""}
             \/ op.template.subPath \in dir.subs
  /\ SyncThrew("subpath") =>
       /\ op.attempts # <<>>
       /\ op.attempts[Len(op.attempts)].outcome = "ok"
       /\ op.attempts[Len(op.attempts)].source = op.candidates[Len(op.attempts)]
       /\ \A e \in scratch : e.id # op.id
       /\ cache = op.spre.cache
       /\ LoadedTemplates(St) = op.spre.templates

\* The subPath was missing in the tree of a candidate that had successors,
\* for a template that has a cache.
C8_Witness ==
  /\ SyncThrew("subpath")
  /\ Len(op.attempts) < Len(op.candidates)
  /\ cache[op.id].exists

\* syncTemplate has returned to its caller without an error.
SyncReturned ==
  /\ op.syncs > 0
  /\ \/ op.pc = "done" /\ op.err = "" /\ op.name \in {"sync", "add", "update"}
     \/ op.pc = "resolve_check"

\* The record of identifier id in templates, NoTemplate when there is none.
RecordOf(templates, id) ==
  LET index == FirstIndex({i \in 1..Len(templates) : templates[i].id = id})
  IN IF index = 0 THEN NoTemplate ELSE templates[index]

\* The record before and after a sync whose last attempt is last.
C9_RecordFollowsTransfer(before, after, last) ==
  /\ last.outcome = "ok"
  /\ op.usedSource = last.source
  /\ after.id = op.id
  /\ after.source = op.usedSource
  /\ op.usedSource = before.source => after = before
  /\ op.usedSource # before.source =>
       /\ after = [before EXCEPT !.source = op.usedSource,
                                 !.updatedAt = after.updatedAt]
       /\ after.updatedAt > before.updatedAt
  /\ (op.name = "add" /\ op.input.source = SrcBare) =>
       \E i \in 1..6 :
         after.source = buildTemplateGitSourceCandidates(SrcBare).value[i]

\* C9: after syncTemplate(id) succeeds, the stored source is the candidate
\* whose transfer succeeded: the record is as it was (updatedAt included)
\* when that address is the one that was stored, and differs from what it
\* was in source and updatedAt only when it is another; for a template added
\* as owner/repo, the stored source is the generated candidate that
\* succeeded.
C9_StoredSourceIsUsed ==
  SyncReturned =>
    C9_RecordFollowsTransfer(RecordOf(op.spre.templates, op.id),
                             RecordOf(LoadedTemplates(St), op.id),
                             op.attempts[Len(op.attempts)])

\* A template added as owner/repo was fetched from its fourth candidate.
C9_Witness ==
  /\ SyncReturned
  /\ op.name = "add"
  /\ op.input.source = SrcBare
  /\ Len(op.attempts) = 4
  /\ RecordOf(LoadedTemplates(St), op.id).source = op.candidates[4]

\* A sync found the stored source working and left the record alone.
C9_WitnessSame ==
  /\ SyncReturned
  /\ op.name = "sync"
  /\ Len(op.attempts) = 1

\* Every record of templates that has a cache has the cache's origin as source.
C10_SourcesMatch(templates) ==
  \A i \in 1..Len(templates) :
    cache[templates[i].id].exists
      => cache[templates[i].id].origin = templates[i].source

\* C10: between operations, every stored template that has a promoted final
\* cache directory has as source the address the cache was fetched from.
C10_SourceMatchesCache ==
  op.pc = "idle" => C10_SourcesMatch(LoadedTemplates(St))

(***************************************************************************)
(* Properties of callers that run at the same time                         *)
(***************************************************************************)
\* Every call has either not started or returned; those that started did so
\* in the processes of P, and all of them returned without error.
RaceSettled(P) ==
  /\ \A c \in Calls : calls[c].pc \in {"idle", "done"}
  /\ \A h \in Calls : lows[h].queue = <<>>
  /\ \A c \in Calls : calls[c].pc = "done" => calls[c].proc \in P /\ calls[c].err = ""

Returned_(c) == calls[c].pc = "done"

\* The persisted document holds the record that call c appended.
Persisted(c) == \E i \in 1..Len(file.templates) : file.templates[i] = CallRecord(c)

\* C11: within one process no two writeDb calls interleave their
\* read-modify-write cycle: once all the calls of a process have returned,
\* the persisted document holds the update of every one of them (none is
\* lost), also when a call was started before an earlier one had returned.
C11_NoLostUpdateInProcess ==
  \A p \in Procs :
    RaceSettled({p}) => \A c \in Calls : Returned_(c) => Persisted(c)

\* C12: the file is under no mutual exclusion.  No call is ever refused or
\* fails, whatever the other callers are doing, and once the calls have
\* returned the document is the one of the call that wrote last: it holds that
\* call's update.
C12_LastWriterWins ==
  /\ \A c \in Calls : calls[c].err = ""
  /\ RaceSettled(Procs) /\ lastWriter # "" => Persisted(lastWriter)

\* Two calls, one per process, have both returned without error and the
\* document holds the update of the later writer only.
C12_Witness ==
  /\ RaceSettled(Procs)
  /\ Returned_("c1") /\ Returned_("c2") /\ ~Returned_("c3")
  /\ calls["c1"].proc # calls["c2"].proc
  /\ \E c \in {"c1", "c2"} :
       /\ lastWriter = c
       /\ file.templates = <<CallRecord(c)>>

(***************************************************************************)
(* Properties of the store on a file that cannot be parsed                 *)
(***************************************************************************)
\* What a later load returns, in this process and in a new one.
LaterLoads == Loads(St) \cup Loads(Store(file, FALSE, createDefaultDb))

\* The load or mutate that has just ended found a file that is not JSON.
C13_EndedOnCorruptFile ==
  /\ op.pc = "done"
  /\ op.name \in {"load", "mutate"}
  /\ op.pre.file.kind = "corrupt"

\* C13: a file that cannot be parsed never makes load or mutate fail.  The
\* load returns the default empty document without error and the file then
\* holds that document; a mutate raises nothing but what its callback raised
\* and leaves a parseable file, the default document with the callback's
\* edit (or without it when the callback raised); a load after the load, in
\* this process or in another, reads the default document back from the file.
C13_CorruptFileHeals ==
  C13_EndedOnCorruptFile =>
    /\ op.err \in {"", "callback"}
    /\ file.kind = "object"
    /\ op.name = "load" =>
         /\ op.err = ""
         /\ op.value = createDefaultDb
         /\ file = createDefaultDb
         /\ LaterLoads = {createDefaultDb}
    /\ op.name = "mutate" =>
         /\ op.err = "callback" => file = createDefaultDb
         /\ op.err = "" => file = op.value

\* A load has returned from a file that was damaged while the process held
\* its handle.
C13_Witness ==
  /\ C13_EndedOnCorruptFile
  /\ op.name = "load"
  /\ op.pre.loads = {createDefaultDb}
  /\ inst
  /\ file = createDefaultDb

(***************************************************************************)
(* Properties of migrateDb                                                 *)
(***************************************************************************)
\* C14: migrateDb is idempotent: applied to what it returned (that result
\* computed once), it returns it unchanged, whatever the first input was and
\* whatever the clock and the random identifier of the second call are.
C14_MigrateIdempotent ==
  op.pc = "migrated_again" => data = op.input

\* migrateDb has been applied to the result of migrating a legacy flat
\* configuration, which the first call turned into a profile.
C14_Witness ==
  /\ op.pc = "migrated_again"
  /\ Len(data.ai.profiles) = 1
  /\ data.ai.profiles[1].id \in GenProfileIds
  /\ data.ai.profiles[1].createdAt < now
  /\ Len(data.templates) = 1

\* C15: migrateDb is total: for every input it returns a document that
\* passes appDbSchema and whose version is CURRENT_DB_VERSION whatever the
\* version of the input; for null or undefined it returns the default empty
\* document.
C15_MigrateTotal ==
  op.pc = "migrated" =>
    /\ data.kind = "object"
    /\ data.templatesIsArray /\ data.ai.kind = "object" /\ data.ai.profilesIsArray
    /\ appDbSchema(data)
    /\ data.version = CURRENT_DB_VERSION
    /\ op.input.kind = "falsy" => data = createDefaultDb

\* migrateDb has returned for an input whose version is newer than the
\* current one and whose records it kept in part.
C15_Witness ==
  /\ op.pc = "migrated"
  /\ op.input.kind = "object"
  /\ op.input.version > CURRENT_DB_VERSION
  /\ Len(data.templates) = 1
  /\ Len(op.input.templates) = 2

\* The input's ai field is a valid legacy flat configuration.
C16_LegacyInput ==
  /\ op.pc = "migrated"
  /\ op.input.kind = "object"
  /\ op.input.ai.kind = "object"
  /\ aiConfigSchema(op.input.ai)

\* C16: for an input whose ai field is a valid legacy flat configuration,
\* migrateDb returns settings with exactly one profile, named "default",
\* that carries the four values of the configuration, and activeProfileId is
\* the id of that profile.
C16_LegacyBecomesDefaultProfile ==
  C16_LegacyInput =>
    /\ Len(data.ai.profiles) = 1
    /\ data.ai.profiles[1].name = "default"
    /\ data.ai.profiles[1].baseURL = op.input.ai.baseURL
    /\ data.ai.profiles[1].apiKey = op.input.ai.apiKey
    /\ data.ai.profiles[1].model = op.input.ai.model
    /\ data.ai.profiles[1].timeoutMs = op.input.ai.timeoutMs
    /\ data.ai.activeProfileId = data.ai.profiles[1].id
    /\ NonEmptyString(data.ai.activeProfileId)

\* The flat configuration came with a profile list and an active id of its
\* own, which the migration left out.
C16_Witness ==
  /\ C16_LegacyInput
  /\ op.input.ai.profiles # <<>>
  /\ op.input.ai.activeProfileId = "p1"
  /\ data.ai.activeProfileId \in GenProfileIds

(***************************************************************************)
(* Properties of resolveTemplateDir                                        *)
(***************************************************************************)
C17_ResolveDone == op.pc = "done" /\ op.name = "resolve"

\* What resolveTemplateDir(op.id) has done for the stored record: one sync
\* when the final cache directory was absent and none when it was there; the
\* directory it returns is the cache directory of the record joined with its
\* subPath, and it exists; when that path does not exist the call has failed.
C17_ResolvedRecord(record) ==
  /\ op.syncs = IF op.pre.cache[op.id].exists THEN 0 ELSE 1
  /\ op.pre.cache[op.id].exists => cache = op.pre.cache /\ op.err \in {"", "nodir"}
  /\ op.err = "" =>
       /\ op.value.baseDir = op.id
       /\ op.value.subPath = IF record.subPath \in {Undef, ""} THEN Undef
                             ELSE record.subPath
       /\ PathExists(cache[op.value.baseDir], op.value.subPath)
  /\ ~PathExists(cache[op.id], record.subPath) => op.err # ""

\* C17: resolveTemplateDir(id) syncs exactly once before resolving when the
\* final cache directory of id is absent and not at all when it is present;
\* it returns the cache directory joined with the record's subPath (the cache
\* directory itself without one) and fails when that path does not exist.
\* An unknown id fails with not-found and without any sync.
C17_ResolveSyncsWhenAbsent ==
  C17_ResolveDone =>
    IF RecordOf(op.pre.templates, op.id) = NoTemplate
    THEN op.err = "notfound" /\ op.syncs = 0 /\ cache = op.pre.cache
    ELSE C17_ResolvedRecord(RecordOf(op.pre.templates, op.id))

\* The cache of a template with a subPath was absent: one sync fetched it
\* and the call returned the joined path.
C17_Witness ==
  /\ C17_ResolveDone
  /\ op.err = ""
  /\ ~op.pre.cache[op.id].exists
  /\ op.syncs = 1
  /\ op.value.subPath = "p"

(***************************************************************************)
(* Properties of the source resolver                                       *)
(***************************************************************************)
\* The call of `name` on an address has ended.
ResolverDone(name) == op.pc = "done" /\ op.name = name

\* A URL with a user and a port: "user@host:" makes it match the scp pattern,
\* which parseSource tries before new URL.
UserAndPort(a) == a.form = "url" /\ a.user # <<>> /\ a.port # <<>>

\* The address is in one of the rewritten shapes: its host is recognized (or
\* it has none), its path has two segments or more, and it carries neither a
\* query string nor a fragment.
Rewritten(a) ==
  /\ a.form \in {"url", "scp", "host", "repo"}
  /\ ~UserAndPort(a)
  /\ a.form = "url" => a.scheme \in {"https", "HTTPS", "ssh"} /\ a.tail = <<>>
  /\ a.form # "repo" => a.host.known
  /\ a.path.canon # <<>>

\* The canonical string of a rewritten address, from its parts.
CanonicalOf(a) ==
  CASE a.form = "url" /\ a.scheme = "ssh" ->
         <<"ssh", ":", "/", "/">> \o (IF a.user = <<>> THEN <<"git">> ELSE a.user)
         \o <<"@">> \o a.host.canon \o <<"/">> \o a.path.canon
    [] a.form = "url" /\ a.scheme # "ssh" ->
         <<"https", ":", "/", "/">> \o a.host.canon \o <<"/">> \o a.path.canon
    [] a.form = "scp" -> a.user \o <<"@">> \o a.host.canon \o <<":">> \o a.path.canon
    [] a.form = "host" ->
         <<"https", ":", "/", "/">> \o a.host.canon \o <<"/">> \o a.path.canon
    [] OTHER -> a.path.canon

\* The address is opaque: a path of the local file system, or an https, ssh,
\* scp-style or host/path address of a host that is not recognized.
Opaque(a) ==
  \/ a.form = "local"
  \/ /\ a.form \in {"url", "scp", "host"}
     /\ ~a.host.known
     /\ a.form = "url" /\ ~UserAndPort(a) =>
          a.scheme \in {"https", "HTTPS", "ssh"} /\ a.tail = <<>>

\* What a URL with a user and a port on a recognized host comes back as: its
\* own text, the host in lower case and the path (the port with it) made
\* canonical.
ScpReadingOf(a) ==
  <<a.scheme, ":", "/", "/">> \o a.user \o <<"@">> \o a.host.canon \o a.port
  \o <<"/">> \o a.path.canon

\* normalizeTemplateGitSource returned one string: the canonical string of a
\* rewritten address, and opaqueText for an opaque one.
C18_Returned(a, opaqueText) ==
  /\ Rewritten(a) => op.err = "" /\ op.candidates = <<CanonicalOf(a)>>
  /\ Opaque(a) => op.err = "" /\ op.candidates = <<opaqueText>>
  /\ UserAndPort(a) /\ a.host.known /\ a.path.canon # <<>> /\ a.tail = <<>> =>
       op.err = "" /\ op.candidates = <<ScpReadingOf(a)>>

C18_WitnessRewritten ==
  /\ ResolverDone("normalize")
  /\ op.input.form = "scp"
  /\ op.input.host.text # op.input.host.canon
  /\ op.input.path.text = <<"acme", "/", "tpl", ".", "GIT">>
  /\ op.candidates = << <<"bob", "@", "github", ".", "com", ":", "acme", "/", "tpl", ".", "git">> >>

\* The address is an unqualified owner/repo: a path of two segments or more
\* and nothing else.
Unqualified(a) == a.form = "repo" /\ a.path.canon # <<>>

HttpsOn(host, path) == <<"https", ":", "/", "/", host, ".", "com", "/">> \o path

SshOn(host, path) == <<"git", "@", host, ".", "com", ":">> \o path

\* C19: for an unqualified owner/repo address buildTemplateGitSourceCandidates
\* returns exactly six addresses: for github.com, gitlab.com and gitee.com in
\* that order, https://host/owner/repo.git followed at once by
\* git@host:owner/repo.git; no address occurs twice.
C19_SixCandidatesInOrder ==
  ResolverDone("candidates") /\ Unqualified(op.input) =>
    /\ op.err = ""
    /\ op.candidates = << HttpsOn("github", op.input.path.canon),
                          SshOn("github", op.input.path.canon),
                          HttpsOn("gitlab", op.input.path.canon),
                          SshOn("gitlab", op.input.path.canon),
                          HttpsOn("gitee", op.input.path.canon),
                          SshOn("gitee", op.input.path.canon) >>
    /\ Len(op.candidates) = 6
    /\ \A i, j \in 1..Len(op.candidates) : op.candidates[i] = op.candidates[j] => i = j

\* The candidates of a padded owner/repo.git have been built.
C19_Witness ==
  /\ ResolverDone("candidates")
  /\ Unqualified(op.input)
  /\ op.input.pad
  /\ op.input.path.text = <<"acme", "/", "tpl", ".", "git">>
  /\ Len(op.candidates) = 6

\* C20: an address in URL, scp-style or bare host/path form whose host is
\* not a recognized one degrades to the opaque shape whatever its scheme,
\* query string or fragment: neither function raises,
\* normalizeTemplateGitSource returns the address (without the white space at
\* its ends) and buildTemplateGitSourceCandidates the list of that one address.
C20_UnknownHostIsOpaque ==
  /\ op.pc = "done"
  /\ op.name \in {"normalize", "candidates"}
  /\ op.input.form \in {"url", "scp", "host"}
  /\ ~op.input.host.known
  => op.err = "" /\ op.candidates = <<AddressBody(op.input)>>

(***************************************************************************)
(* Properties of setConfig                                                 *)
(***************************************************************************)
\* The name setConfig stores the profile under.
C21_ProfileName ==
  OrElse(IF op.input.profileName = Undef THEN Undef
         ELSE TrimStr(op.input.profileName),
         DEFAULT_PROFILE_NAME)

C21_SetConfigDone == op.pc = "done" /\ op.name = "setConfig"

C21_Indices(ai, name) == {i \in 1..Len(ai.profiles) : ai.profiles[i].name = name}

C21_UniqueNames(ai) ==
  \A i, j \in 1..Len(ai.profiles) : i # j => ai.profiles[i].name # ai.profiles[j].name

\* after is before with one profile upserted under name: a profile of that
\* name keeps its place, its id and its createdAt, and a name not yet there
\* is added once.
C21_Upserted(before, after, name) ==
  LET I == C21_Indices(before, name)
  IN /\ C21_Indices(after, name) # {}
     /\ I = {} => Len(after.profiles) = Len(before.profiles) + 1
     /\ I # {} => /\ Len(after.profiles) = Len(before.profiles)
                  /\ \A i \in I :
                       /\ after.profiles[i].name = name
                       /\ after.profiles[i].id = before.profiles[i].id
                       /\ after.profiles[i].createdAt = before.profiles[i].createdAt
     /\ C21_UniqueNames(before) => C21_UniqueNames(after)

\* C21: a setConfig that succeeds is an upsert by name (a profile of that
\* name keeps its id and createdAt, and names that were unique stay unique)
\* and, when activate is omitted, leaves the profile of that name active; a
\* setConfig that fails validation leaves the file holding what it held or
\* what a load before the call would have returned, and later loads return
\* what a load before the call would have returned.
C21_SetConfigUpserts ==
  C21_SetConfigDone =>
    /\ op.err \in {"", "validation"}
    /\ op.err = "" =>
         /\ \E d \in op.pre.loads : C21_Upserted(d.ai, file.ai, C21_ProfileName)
         /\ op.input.activate = Undef =>
              \E i \in C21_Indices(file.ai, C21_ProfileName) :
                file.ai.profiles[i].id = file.ai.activeProfileId
         /\ Loads(St) = {file}
    /\ op.err = "validation" =>
         /\ file = op.pre.file \/ file \in op.pre.loads
         /\ Loads(St) \subseteq op.pre.loads
    /\ (op.err = "validation") <=>
         \A d \in op.pre.loads :
           LET I == C21_Indices(d.ai, C21_ProfileName)
               apiKey == OrElse(IF op.input.apiKey = Undef THEN Undef
                                ELSE TrimStr(op.input.apiKey),
                                IF I = {} THEN ""
                                ELSE d.ai.profiles[FirstIndex(I)].apiKey)
               timeoutMs == IF op.input.timeoutMs.k # "undef" THEN op.input.timeoutMs
                            ELSE IF I = {} THEN Num("int", DEFAULT_TIMEOUT)
                            ELSE d.ai.profiles[FirstIndex(I)].timeoutMs
           IN \/ apiKey = ""
              \/ timeoutMs.k \notin {"int", "frac"}
              \/ timeoutMs.v <= 0

\* setConfig with activate omitted updated a stored profile that was not the
\* active one.
C21_Witness ==
  /\ C21_SetConfigDone
  /\ op.err = ""
  /\ op.input.activate = Undef
  /\ \E d \in op.pre.loads :
       /\ Len(d.ai.profiles) = 2
       /\ \E i \in C21_Indices(d.ai, C21_ProfileName) :
            d.ai.profiles[i].id # d.ai.activeProfileId

(***************************************************************************)
(* Properties of the candidate loop                                        *)
(***************************************************************************)
\* syncTemplate is inside cloneGitTemplate or past it.
C22_InSync ==
  op.pc \in {"sync_clone", "sync_check", "sync_rmfinal", "sync_move",
             "sync_writeback", "sync_catch"}

C22_Failed(attempt) == attempt.outcome # "ok"

\* What the scratch directory of the running sync holds.
C22_ScratchOfSync == {e \in scratch : e.id = op.id /\ e.ts = op.ts}

C22_AttemptsInOrder ==
  C22_InSync =>
    /\ Len(op.attempts) <= Len(op.candidates)
    /\ \A k \in 1..Len(op.attempts) : op.attempts[k].source = op.candidates[k]
    /\ \A k \in 1..(Len(op.attempts) - 1) : C22_Failed(op.attempts[k])
    /\ op.pc = "sync_clone" =>
         /\ op.i = Len(op.attempts) + 1
         /\ op.i <= Len(op.candidates)
         /\ \A k \in 1..Len(op.attempts) : C22_Failed(op.attempts[k])
    /\ op.pc \in {"sync_check", "sync_rmfinal"} =>
         ~C22_Failed(op.attempts[Len(op.attempts)])
    /\ op.attempts = <<>> => C22_ScratchOfSync = {}
    /\ \A e \in C22_ScratchOfSync :
         /\ e.dir.origin = op.attempts[Len(op.attempts)].source
         /\ Cardinality(C22_ScratchOfSync) = 1

\* One turn of the loop makes one attempt, and the loop goes on to the next
\* candidate only when that attempt failed; outside the loop no attempt is
\* made.
C22_OneAttemptPerTurn ==
  /\ op.pc = "sync_clone" =>
       /\ Len(op'.attempts) = Len(op.attempts) + 1
       /\ op'.pc = "sync_clone" =>
            /\ C22_Failed(op'.attempts[Len(op'.attempts)])
            /\ op'.i = op.i + 1
  /\ (C22_InSync /\ op.pc # "sync_clone" /\ op'.pc # "idle") =>
       op'.attempts = op.attempts

\* C22: during one sync the candidates are attempted in list order and one
\* at a time, candidate i+1 only after the attempt of candidate i failed;
\* every attempt starts from a removed scratch directory (the directory
\* holds what the last attempt left and nothing of an earlier one); the
\* first success ends the loop; there are never more attempts than
\* candidates.
C22_SequentialAttempts == []C22_AttemptsInOrder /\ [][C22_OneAttemptPerTurn]_vars

\* The third of six candidates was transferred after two failed attempts.
C22_Witness ==
  /\ op.pc = "sync_check"
  /\ Len(op.candidates) = 6
  /\ Len(op.attempts) = 3
  /\ ~C22_Failed(op.attempts[3])

\* C23: for every address c that buildTemplateGitSourceCandidates can
\* produce, buildTemplateGitSourceCandidates(c) returns a list whose first
\* element is c, so that a sync of a record whose source a previous sync
\* rewrote to c attempts c first.
C23_WorkingAddressFirst ==
  ResolverDone("candidates_again") =>
    /\ op.err = ""
    /\ op.attempts # <<>>
    /\ op.attempts[1] = op.usedSource

\* The sibling-protocol form of a rewritten address on a recognized host,
\* from its parts: the scp-style form for an https URL (with the URL's user,
\* git when it has none) and for a bare host/path, the https form for an ssh
\* URL and for an scp-style address.
SiblingOf(a) ==
  CASE a.form = "url" /\ a.scheme # "ssh" ->
         (IF a.user = <<>> THEN <<"git">> ELSE a.user)
         \o <<"@">> \o a.host.canon \o <<":">> \o a.path.canon
    [] a.form = "host" -> <<"git", "@">> \o a.host.canon \o <<":">> \o a.path.canon
    [] OTHER -> <<"https", ":", "/", "/">> \o a.host.canon \o <<"/">> \o a.path.canon

\* The https form that goes with ScpReadingOf: the port is read as the first
\* segment of the path.
ScpReadingSiblingOf(a) ==
  <<"https", ":", "/", "/">> \o a.host.canon \o <<"/">> \o Tail(a.port)
  \o <<"/">> \o a.path.canon

\* buildTemplateGitSourceCandidates returned, for an address a on a
\* recognized host, the canonical form and then the sibling form, and for
\* an opaque address the list of opaqueText alone.  A URL that has a user
\* and a port counts as a URL of its scheme when urlReading, and as the
\* scp-style address parseSource takes it for otherwise.
C24_Returned(a, opaqueText, urlReading) ==
  /\ (Rewritten(a) /\ a.form # "repo") =>
       op.err = "" /\ op.candidates = <<CanonicalOf(a), SiblingOf(a)>>
  /\ Opaque(a) => op.err = "" /\ op.candidates = <<opaqueText>>
  /\ (UserAndPort(a) /\ a.host.known /\ a.path.canon # <<>> /\ a.tail = <<>>
      /\ a.scheme \in {"https", "HTTPS", "ssh"}) =>
       /\ op.err = ""
       /\ Len(op.candidates) = 2
       /\ urlReading => op.candidates = <<CanonicalOf(a), SiblingOf(a)>>
       /\ ~urlReading => op.candidates = <<ScpReadingOf(a), ScpReadingSiblingOf(a)>>

C25_Invalid(a) ==
  \/ a.form = "empty"
  \/ /\ a.form \in {"url", "scp", "host"}
     /\ a.host.known
     /\ a.path.canon = <<>>
  \/ /\ a.form = "url"
     /\ a.host.known
     /\ a.scheme \notin {"https", "HTTPS", "ssh"} \/ a.tail # <<>>

\* C25: normalizeTemplateGitSource raises for every invalid address (so
\* that addTemplate and updateTemplate, which call it before they write,
\* store nothing and start no sync).
C25_InvalidAddressRaises ==
  (ResolverDone("normalize") /\ C25_Invalid(op.input)) => op.err = "validation"

(***************************************************************************)
(* Properties of the two sanitizers of migrateDb                           *)
(***************************************************************************)
\* The entry is kept: it is not of the deprecated kind and it passes the
\* template record schema.
C26_Kept(item) == item.sourceType # "local" /\ templateRecordSchema(item)

\* The two records agree on every field of the schema.
C26_SameRecord(a, b) ==
  /\ a.id = b.id /\ a.name = b.name /\ a.description = b.description
  /\ a.source = b.source /\ a.branch = b.branch /\ a.subPath = b.subPath
  /\ a.variables = b.variables
  /\ a.createdAt = b.createdAt /\ a.updatedAt = b.updatedAt

\* The clock at the call whose result data is.
C26_CalledAt == IF DrawsProfileId(op.input) THEN now - 1 ELSE now

\* C26: migrateDb returns as templates the entries of the input list that
\* are not of the deprecated kind and pass the template record schema, in
\* their order, each with the schema's fields as they were; the list is
\* empty when the input has no templates list; the AI settings it returns
\* are those it returns for the same input without any templates entry.
C26_TemplatesFiltered ==
  op.pc \in {"migrated", "migrated_again"} =>
    LET kept == IF op.input.kind = "object" /\ op.input.templatesIsArray
                THEN SelectSeq(op.input.templates, C26_Kept)
                ELSE <<>>
    IN /\ Len(data.templates) = Len(kept)
       /\ \A i \in 1..Len(kept) : C26_SameRecord(data.templates[i], kept[i])
       /\ \E rnd \in GenProfileIds :
            data.ai = migrateDb([op.input EXCEPT !.templates = <<>>],
                                rnd, C26_CalledAt).ai

\* Of three entries the deprecated one in the middle was dropped and the
\* two others were kept in their order.
C26_Witness ==
  /\ op.pc = "migrated"
  /\ Len(op.input.templates) = 3
  /\ op.input.templates[2].sourceType = "local"
  /\ templateRecordSchema(op.input.templates[2])
  /\ Len(data.templates) = 2
  /\ data.templates[1].id = "t1"
  /\ data.templates[2].id = "t2"

\* The input's ai field has the shape {activeProfileId, profiles}: an object
\* with a profiles list and none of the keys of the flat configuration.
C27_SettingsInput ==
  /\ op.pc \in {"migrated", "migrated_again"}
  /\ op.input.kind = "object"
  /\ op.input.ai.kind = "object"
  /\ op.input.ai.profilesIsArray
  /\ op.input.ai.baseURL = Undef /\ op.input.ai.apiKey = Undef
  /\ op.input.ai.model = Undef /\ op.input.ai.timeoutMs = NumUndef

\* The stored activeProfileId is the id of a profile of kept.
C27_StoredIdKept(stored, kept) ==
  /\ stored \notin {Undef, Bad, ""}
  /\ \E i \in 1..Len(kept) : kept[i].id = stored

\* C27: for an ai input of the shape {activeProfileId, profiles} migrateDb
\* keeps the profiles that pass the profile schema, in their order;
\* activeProfileId is the stored id when a kept profile carries it, the id
\* of the first kept profile otherwise, and null when no profile is kept.
\* No migrated document has a null activeProfileId and a profile.
C27_ActiveProfileRecomputed ==
  /\ C27_SettingsInput =>
       LET kept == SelectSeq(op.input.ai.profiles, aiProfileSchema)
           stored == op.input.ai.activeProfileId
       IN /\ data.ai.profiles = kept
          /\ C27_StoredIdKept(stored, kept) => data.ai.activeProfileId = stored
          /\ (~C27_StoredIdKept(stored, kept) /\ kept # <<>>) =>
               data.ai.activeProfileId = kept[1].id
          /\ kept = <<>> => data.ai.activeProfileId = Undef
  /\ op.pc \in {"migrated", "migrated_again"} =>
       (data.ai.activeProfileId = Undef => data.ai.profiles = <<>>)

\* The stored id named a profile that fails the schema: the one profile that
\* was kept became the active one.
C27_Witness ==
  /\ C27_SettingsInput
  /\ op.pc = "migrated"
  /\ Len(op.input.ai.profiles) = 2
  /\ op.input.ai.activeProfileId = op.input.ai.profiles[1].id
  /\ Len(data.ai.profiles) = 1
  /\ data.ai.activeProfileId = op.input.ai.profiles[2].id

(***************************************************************************)
(* Properties of addTemplate, updateTemplate and removeTemplate            *)
(***************************************************************************)
\* addTemplate has ended after it called syncTemplate.
C28_AddSynced == op.pc = "done" /\ op.name = "add" /\ op.syncs > 0

\* The error is the one the sync raised: "transfer" when every candidate was
\* attempted and failed, "subpath" when a transfer succeeded and the tree
\* lacks the subPath, "notfound" when the sync did not find the record.
C28_SyncError ==
  \/ /\ op.err = "transfer"
     /\ Len(op.attempts) = Len(op.candidates)
     /\ \A k \in 1..Len(op.attempts) : op.attempts[k].outcome # "ok"
  \/ /\ op.err = "subpath"
     /\ op.attempts # <<>>
     /\ op.attempts[Len(op.attempts)].outcome = "ok"
     /\ op.input.subPath \notin {Undef, ""}
  \/ /\ op.err = "notfound"
     /\ op.attempts = <<>>

\* C28: when the sync that follows addTemplate's insertion fails, the sync's
\* error reaches the caller, the templates sequence is the one of before the
\* call, and the new id has neither a final cache directory nor a scratch
\* directory; when the sync succeeds the record is stored and its final
\* cache directory exists.
C28_AddAllOrNothing ==
  C28_AddSynced =>
    /\ op.err # "" =>
         /\ C28_SyncError
         /\ LoadedTemplates(St) = op.pre.templates
         /\ file.templates = op.pre.templates
         /\ ~cache[op.id].exists
         /\ \A e \in scratch : e.id # op.id
    /\ op.err = "" =>
         /\ RecordOf(LoadedTemplates(St), op.id).id = op.id
         /\ Len(LoadedTemplates(St)) = Len(op.pre.templates) + 1
         /\ cache[op.id].exists
         /\ cache[op.id].complete

\* updateTemplate has ended.
C29_UpdateDone == op.pc = "done" /\ op.name = "update"

\* The place of the record op.id in templates, 0 when it is not there.
C29_IndexOf(templates) ==
  FirstIndex({i \in 1..Len(templates) : templates[i].id = op.id})

\* after is before with the fields the input carries replaced, source being
\* the canonical form of the address, and a later updatedAt.
C29_Patched(before, after) ==
  /\ after.id = before.id
  /\ after.createdAt = before.createdAt
  /\ after.name = (IF op.input.name = Undef THEN before.name ELSE op.input.name)
  /\ after.description = before.description
  /\ after.branch = before.branch
  /\ after.subPath = (IF op.input.subPath = Undef THEN before.subPath
                      ELSE op.input.subPath)
  /\ after.variables = (IF op.input.variables = {} THEN before.variables
                        ELSE op.input.variables)
  /\ op.input.source = UndefSource => after.source = before.source
  /\ op.input.source = SrcHost =>
       after.source = <<"https", ":", "/", "/", "github", ".", "com", "/",
                        "acme", "/", "tpl", ".", "git">>
  /\ op.input.source = SrcBare => after.source = <<"acme", "/", "tpl", ".", "git">>
  /\ after.updatedAt > before.updatedAt

\* The record op.id is in after where it was in before, with its id and
\* createdAt, and every other record is as it was.
C29_Frame(before, after) ==
  /\ Len(after) = Len(before)
  /\ C29_IndexOf(after) = C29_IndexOf(before)
  /\ \A j \in 1..Len(before) :
       IF j = C29_IndexOf(before)
       THEN after[j].id = before[j].id /\ after[j].createdAt = before[j].createdAt
       ELSE after[j] = before[j]

\* What updateTemplate has left, the stored templates being before at its
\* start and after at its end.  A failure that comes before the write leaves
\* the file as it was, or as the store itself rewrote it when it was opened
\* (the document a load before the call would have returned).
C29_Updated(before, after) ==
  /\ op.syncs = 0 =>
       /\ op.err \in {"notfound", "conflict", "validation"}
       /\ op.err = "notfound" <=> C29_IndexOf(before) = 0
       /\ op.err = "conflict" =>
            \E j \in 1..Len(before) :
              j # C29_IndexOf(before) /\ before[j].name = op.input.name
       /\ after = before
       /\ cache = op.pre.cache
       /\ file = op.pre.file \/ file \in op.pre.loads
  /\ op.syncs > 0 =>
       /\ C29_Frame(before, after)
       /\ op.err # "" =>
            /\ op.err \in {"transfer", "subpath"}
            /\ C29_Patched(before[C29_IndexOf(before)], after[C29_IndexOf(before)])
            /\ cache = op.pre.cache
            /\ \A e \in scratch : e.id # op.id

\* C29: updateTemplate writes the patch before it syncs and does not take
\* it back: when the sync fails its error reaches the caller, the stored
\* record has the patched fields and the final cache directory is as it
\* was; in every case the record keeps its id, createdAt and place and no
\* other record changes; an unknown id and a name that another record uses
\* raise and nothing of the patch is written.
C29_PatchPersists ==
  C29_UpdateDone => C29_Updated(op.pre.templates, LoadedTemplates(St))

\* templates without the records of identifier id
C30_Without(templates, id) == SelectSeq(templates, LAMBDA item : item.id # id)

\* The final cache directories other than that of id are as they were.
C30_OtherCachesKept ==
  \A t \in TemplateIds : t # op.id => cache[t] = op.pre.cache[t]

\* C30: removeTemplate(id) of a stored id leaves no record of that id and no
\* final cache directory of that id, the other records as they were and in
\* their order, and the other cache directories as they were; the record is
\* out of the document while the cache directory is still to be deleted.
\* removeTemplate of an unknown id raises not-found and leaves the document
\* and the cache directories as they were.
C30_RemoveFrame ==
  /\ (op.name = "remove" /\ op.pc = "remove_rm") =>
       /\ RecordOf(op.pre.templates, op.id).id = op.id
       /\ LoadedTemplates(St) = C30_Without(op.pre.templates, op.id)
       /\ cache = op.pre.cache
  /\ (op.name = "remove" /\ op.pc = "done") =>
       /\ op.err \in {"", "notfound"}
       /\ op.err = "notfound" <=> RecordOf(op.pre.templates, op.id).id # op.id
       /\ op.err = "" =>
            /\ LoadedTemplates(St) = C30_Without(op.pre.templates, op.id)
            /\ Len(LoadedTemplates(St)) = Len(op.pre.templates) - 1
            /\ ~cache[op.id].exists
            /\ C30_OtherCachesKept
       /\ op.err = "notfound" =>
            /\ LoadedTemplates(St) = op.pre.templates
            /\ file = op.pre.file \/ file \in op.pre.loads
            /\ cache = op.pre.cache

\* The first of two stored templates was removed: the second is stored as it
\* was and has its cache directory.
C30_Witness ==
  /\ op.name = "remove"
  /\ op.pc = "done"
  /\ op.err = ""
  /\ Len(op.pre.templates) = 2
  /\ op.pre.templates[1].id = op.id
  /\ op.pre.cache[op.id].exists
  /\ LoadedTemplates(St) = <<op.pre.templates[2]>>
  /\ cache[op.pre.templates[2].id].exists

=============================================================================
